---- MODULE Spec2Model ----
(***************************************************************************)
(* Model of the ig_corpus feedback-loop controller (ig_corpus/loop.py),    *)
(* its term queue, stagnation tracker, dominance guard and the SQLite      *)
(* state store it persists into.                                           *)
(*                                                                         *)
(* Strings that the code trims, case-folds or compares are modelled as     *)
(* sequences of one-character strings, so that normalisation is computed   *)
(* and not assumed.  None is modelled by the empty sequence / "" where the *)
(* code coerces empty values to None (normalize.py _coerce_str).           *)
(***************************************************************************)
EXTENDS Integers, Sequences, FiniteSets, TLC

\* ------------------------------------------------------------------------
\* Bounds of the model (not program constants)
\* ------------------------------------------------------------------------

\* largest per-owner cap (filters.max_posts_per_user) a configuration may carry
MaxCap == 1

\* number of run_feedback_loop calls made against the same store
MaxCalls == 3

\* largest number of items one discovery call returns
MaxItemsPerCall == 2

\* primary discovery calls that return, over all run_feedback_loop calls; the
\* discovery collaborator raises from then on
MaxDiscoveries == 2

\* configured targets.pool_n, loop.max_iterations and loop.max_raw_items
PoolN == 2
MaxIterations == 2
MaxRawItems == 3

\* configured loop.stagnation_window and loop.stagnation_min_new_eligible
StagnationWindow == 2
StagnationMinNew == 1

\* loop.stagnation_window and loop.stagnation_min_new_eligible of EagerConfigs
EagerWindow == 1
EagerMinNew == 2

\* configured apify.run_batch_queries
RunBatchQueries == 1

\* ------------------------------------------------------------------------
\* Characters and strings
\* ------------------------------------------------------------------------

\* str.casefold on one character of the alphabet used by the model
Lower(c) ==
    CASE c = "A" -> "a"
      [] c = "B" -> "b"
      [] c = "C" -> "c"
      [] c = "X" -> "x"
      [] c = "WWW" -> "www"
      [] c = "HTTPS" -> "https"
      [] OTHER -> c

\* code point of a character (ordering of Python str comparison)
Ord(c) ==
    CASE c = " " -> 32
      [] c = "#" -> 35
      [] c = "1" -> 49
      [] c = "2" -> 50
      [] c = "3" -> 51
      [] c = "A" -> 65
      [] c = "B" -> 66
      [] c = "C" -> 67
      [] c = "a" -> 97
      [] c = "b" -> 98
      [] c = "c" -> 99
      [] OTHER -> 0

casefold(s) == [i \in 1..Len(s) |-> Lower(s[i])]

RECURSIVE lstrip(_)
lstrip(s) == IF Len(s) > 0 /\ s[1] = " " THEN lstrip(Tail(s)) ELSE s

RECURSIVE rstrip(_)
rstrip(s) ==
    IF Len(s) > 0 /\ s[Len(s)] = " " THEN rstrip(SubSeq(s, 1, Len(s) - 1)) ELSE s

strip(s) == rstrip(lstrip(s))

\* Python's str < str: lexicographic by code point, a proper prefix is smaller
RECURSIVE StrLess(_, _)
StrLess(s, t) ==
    IF Len(t) = 0 THEN FALSE
    ELSE IF Len(s) = 0 THEN TRUE
    ELSE IF Ord(s[1]) # Ord(t[1]) THEN Ord(s[1]) < Ord(t[1])
    ELSE StrLess(Tail(s), Tail(t))

\* elements of a sequence
Range(s) == {s[i] : i \in 1..Len(s)}

FirstN(s, n) == SubSeq(s, 1, IF Len(s) < n THEN Len(s) ELSE n)

\* ------------------------------------------------------------------------
\* query_queue.py
\* ------------------------------------------------------------------------

normalize_term(value) ==
    LET term == strip(value)
    IN  IF Len(term) > 0 /\ term[1] = "#" THEN strip(Tail(term)) ELSE term

\* TermQueue.__init__ before add_many(initial)
EmptyQueue == [queue |-> <<>>, present |-> {}]

\* add keeping the term as spelled, not case-folded, in _present
TermQueue_add_keys_by_spelling(q, term) ==
    LET norm == normalize_term(term)
        key  == norm
    IN  IF Len(norm) = 0 THEN [q |-> q, ret |-> FALSE]
        ELSE IF key \in q.present THEN [q |-> q, ret |-> FALSE]
        ELSE [q   |-> [queue |-> Append(q.queue, norm), present |-> q.present \cup {key}],
              ret |-> TRUE]

\* TermQueue.add: the queue after the call and the value returned
TermQueue_add(q, term) ==
    LET norm == normalize_term(term)
        key  == casefold(norm)
    IN  IF Len(norm) = 0 THEN [q |-> q, ret |-> FALSE]
        ELSE IF key \in q.present THEN [q |-> q, ret |-> FALSE]
        ELSE [q   |-> [queue |-> Append(q.queue, norm), present |-> q.present \cup {key}],
              ret |-> TRUE]

\* TermQueue.add_many: the queue after the call and the count returned
RECURSIVE TermQueue_add_many(_, _)
TermQueue_add_many(q, terms) ==
    IF Len(terms) = 0 THEN [q |-> q, ret |-> 0]
    ELSE LET one  == TermQueue_add(q, Head(terms))
             rest == TermQueue_add_many(one.q, Tail(terms))
         IN  [q |-> rest.q, ret |-> rest.ret + (IF one.ret THEN 1 ELSE 0)]

\* TermQueue.__init__(initial)
TermQueue_init(initial) == TermQueue_add_many(EmptyQueue, initial).q

\* a pop loop that leaves the keys of the popped terms in _present
RECURSIVE pop_left_keeps_keys(_, _)
pop_left_keeps_keys(q, n) ==
    IF n <= 0 THEN [q |-> q, out |-> <<>>]
    ELSE LET term == Head(q.queue)
             q1   == [queue |-> Tail(q.queue), present |-> q.present]
             rest == pop_left_keeps_keys(q1, n - 1)
         IN  [q |-> rest.q, out |-> <<term>> \o rest.out]

\* a pop loop that takes the terms from the right end (pop() for popleft())
RECURSIVE pop_left_from_right(_, _)
pop_left_from_right(q, n) ==
    IF n <= 0 THEN [q |-> q, out |-> <<>>]
    ELSE LET term == q.queue[Len(q.queue)]
             q1   == [queue |-> SubSeq(q.queue, 1, Len(q.queue) - 1),
                      present |-> q.present \ {casefold(term)}]
             rest == pop_left_from_right(q1, n - 1)
         IN  [q |-> rest.q, out |-> <<term>> \o rest.out]

\* the loop of pop_batch: n times popleft, discard the key, append to out
RECURSIVE pop_left(_, _)
pop_left(q, n) ==
    IF n <= 0 THEN [q |-> q, out |-> <<>>]
    ELSE LET term == Head(q.queue)
             q1   == [queue |-> Tail(q.queue), present |-> q.present \ {casefold(term)}]
             rest == pop_left(q1, n - 1)
         IN  [q |-> rest.q, out |-> <<term>> \o rest.out]

\* pop_batch without its check of size
TermQueue_pop_batch_unchecked(q, size) ==
    LET n == IF size < Len(q.queue) THEN size ELSE Len(q.queue)
        r == pop_left(q, n)
    IN  [q |-> r.q, out |-> r.out, raised |-> FALSE]

\* TermQueue.pop_batch: the queue after the call, the list returned, and
\* whether ValueError was raised instead
TermQueue_pop_batch(q, size) ==
    IF size <= 0 THEN [q |-> q, out |-> <<>>, raised |-> TRUE]
    ELSE LET n == IF size < Len(q.queue) THEN size ELSE Len(q.queue)
             r == pop_left(q, n)
         IN  [q |-> r.q, out |-> r.out, raised |-> FALSE]

TermQueue_present_keys(q) == q.present

\* ------------------------------------------------------------------------
\* stagnation.py
\* ------------------------------------------------------------------------

RECURSIVE SeqSum(_)
SeqSum(s) == IF Len(s) = 0 THEN 0 ELSE Head(s) + SeqSum(Tail(s))

\* StagnationTracker(window_size, min_new_total) after construction
StagnationTracker_init == [values |-> <<>>, seen |-> 0]

RECURSIVE EvictTo(_, _)
EvictTo(vals, window_size) ==
    IF Len(vals) > window_size THEN EvictTo(Tail(vals), window_size) ELSE vals

\* push comparing the window sum with <= where the code has <
StagnationTracker_push_le(st, new_value, window_size, min_new_total) ==
    LET seen1 == st.seen + 1
        vals1 == EvictTo(Append(st.values, new_value), window_size)
        st1   == [values |-> vals1, seen |-> seen1]
    IN  IF Len(vals1) < window_size THEN [st |-> st1, ret |-> FALSE]
        ELSE IF min_new_total > window_size /\ seen1 < min_new_total
             THEN [st |-> st1, ret |-> FALSE]
        ELSE [st |-> st1, ret |-> SeqSum(vals1) <= min_new_total]

\* push without the guard on the number of values seen
StagnationTracker_push_no_warmup(st, new_value, window_size, min_new_total) ==
    LET seen1 == st.seen + 1
        vals1 == EvictTo(Append(st.values, new_value), window_size)
        st1   == [values |-> vals1, seen |-> seen1]
    IN  IF Len(vals1) < window_size THEN [st |-> st1, ret |-> FALSE]
        ELSE [st |-> st1, ret |-> SeqSum(vals1) < min_new_total]

\* StagnationTracker.push: the tracker after the call and the value returned
StagnationTracker_push(st, new_value, window_size, min_new_total) ==
    LET seen1 == st.seen + 1
        vals1 == EvictTo(Append(st.values, new_value), window_size)
        st1   == [values |-> vals1, seen |-> seen1]
    IN  IF Len(vals1) < window_size THEN [st |-> st1, ret |-> FALSE]
        ELSE IF min_new_total > window_size /\ seen1 < min_new_total
             THEN [st |-> st1, ret |-> FALSE]
        ELSE [st |-> st1, ret |-> SeqSum(vals1) < min_new_total]

\* ------------------------------------------------------------------------
\* URLs.  A URL is kept in the parts urlsplit gives: scheme, netloc (a
\* sequence of labels), path (a sequence of segments and whether it ends in
\* "/"), query and fragment.  The scheme "" stands for a string without one.
\* ------------------------------------------------------------------------

NoUrl == [scheme |-> "", host |-> <<>>, segs |-> <<>>, slash |-> FALSE,
          query |-> "", frag |-> ""]

\* a canonical form that keeps the query string
canonicalize_url_keeps_query(url) ==
    IF url = NoUrl THEN NoUrl
    ELSE IF url.scheme = "" \/ Len(url.host) = 0
         THEN IF url.query = "" /\ url.frag = "" THEN [url EXCEPT !.slash = FALSE] ELSE url
    ELSE LET netloc == casefold(url.host)
             host   == IF Len(netloc) > 1 /\ netloc[1] = "www" THEN Tail(netloc) ELSE netloc
         IN  [scheme |-> Lower(url.scheme), host |-> host, segs |-> url.segs,
              slash |-> (Len(url.segs) = 0), query |-> url.query, frag |-> ""]

\* dedupe.py canonicalize_url
canonicalize_url(url) ==
    IF url = NoUrl THEN NoUrl
    ELSE IF url.scheme = "" \/ Len(url.host) = 0
         THEN \* value.rstrip("/") strips the end of the whole string
              IF url.query = "" /\ url.frag = "" THEN [url EXCEPT !.slash = FALSE] ELSE url
    ELSE LET netloc == casefold(url.host)
             host   == IF Len(netloc) > 1 /\ netloc[1] = "www" THEN Tail(netloc) ELSE netloc
         IN  [scheme |-> Lower(url.scheme), host |-> host, segs |-> url.segs,
              slash |-> (Len(url.segs) = 0), query |-> "", frag |-> ""]

\* ------------------------------------------------------------------------
\* normalize.py, post.py
\* ------------------------------------------------------------------------

\* _coerce_str_list with strip_prefix "#" on a list of strings
RECURSIVE coerce_str_list(_)
coerce_str_list(values) ==
    IF Len(values) = 0 THEN <<>>
    ELSE LET s0 == strip(Head(values))
             s  == IF Len(s0) > 0 /\ s0[1] = "#" THEN strip(Tail(s0)) ELSE s0
         IN  (IF Len(s) > 0 THEN <<s>> ELSE <<>>) \o coerce_str_list(Tail(values))

\* _dedupe_terms: first occurrence of every case-folded term, in order
RECURSIVE dedupe_terms_from(_, _)
dedupe_terms_from(values, seen) ==
    IF Len(values) = 0 THEN <<>>
    ELSE LET term == strip(Head(values))
             key  == casefold(term)
         IN  IF Len(term) = 0 \/ key \in seen
             THEN dedupe_terms_from(Tail(values), seen)
             ELSE <<term>> \o dedupe_terms_from(Tail(values), seen \cup {key})

dedupe_terms(values) == dedupe_terms_from(values, {})

\* the value returned for an item without a URL
NoPost == [url |-> NoUrl, post_id |-> <<>>, short_code |-> <<>>,
           owner_username |-> <<>>, owner_id |-> <<>>, caption_len |-> 0,
           hashtags |-> <<>>, product_type |-> <<>>, type |-> <<>>,
           is_sponsored |-> FALSE]

\* normalized_post_from_apify_item; caption_len is len(caption.strip())
normalized_post_from_apify_item(item) ==
    IF item.url = NoUrl THEN NoPost
    ELSE [url            |-> item.url,
          post_id        |-> strip(item.id),
          short_code     |-> strip(item.shortCode),
          owner_username |-> strip(item.ownerUsername),
          owner_id       |-> strip(item.ownerId),
          caption_len    |-> item.caption_len,
          hashtags       |-> dedupe_terms(coerce_str_list(item.hashtags)),
          product_type   |-> strip(item.productType),
          type           |-> strip(item.type),
          is_sponsored   |-> item.isSponsored]

\* ------------------------------------------------------------------------
\* dedupe.py dedupe_key
\* ------------------------------------------------------------------------

dedupe_key(post) ==
    IF Len(post.post_id) > 0
    THEN [kind |-> "id", id |-> post.post_id, url |-> NoUrl]
    ELSE IF Len(post.short_code) > 0
    THEN [kind |-> "shortcode", id |-> post.short_code, url |-> NoUrl]
    ELSE [kind |-> "url", id |-> <<>>, url |-> canonicalize_url(post.url)]

\* ------------------------------------------------------------------------
\* prechecks.py run_prechecks (.passed)
\* ------------------------------------------------------------------------

run_prechecks(post, filters) ==
    LET caption_bad ==
            \/ post.caption_len = 0
            \/ (filters.min_caption_chars > 0 /\ post.caption_len < filters.min_caption_chars)
        product == casefold(post.product_type)
        reels_bad ==
            /\ ~filters.allow_reels
            /\ IF Len(product) > 0 THEN product # <<"feed">>
               ELSE casefold(post.type) = <<"video">>
        sponsored_bad == filters.reject_if_sponsored_true /\ post.is_sponsored
    IN  ~(caption_bad \/ reels_bad \/ sponsored_bad)

\* ------------------------------------------------------------------------
\* eligibility.py
\* ------------------------------------------------------------------------

compute_structured_eligibility(decision) ==
    /\ decision.is_english
    /\ decision.is_bodyweight_calisthenics
    /\ decision.is_analyzable
    /\ ~decision.is_exclusively_commercial

\* ------------------------------------------------------------------------
\* Counters (collections.Counter): a function on the keys counted so far
\* ------------------------------------------------------------------------

EmptyCounter == [k \in {} |-> 0]

Count(counter, k) == IF k \in DOMAIN counter THEN counter[k] ELSE 0

Inc(counter, k) ==
    [x \in DOMAIN counter \cup {k} |-> Count(counter, x) + (IF x = k THEN 1 ELSE 0)]

RECURSIVE IncAll(_, _)
IncAll(counter, ks) ==
    IF Len(ks) = 0 THEN counter ELSE IncAll(Inc(counter, Head(ks)), Tail(ks))

\* ------------------------------------------------------------------------
\* loop.py _apply_dominance_guard
\* ------------------------------------------------------------------------

NoUser == [kind |-> "none", name |-> <<>>]

\* the user_key of lines 220-224 (and 161-165)
user_key_of(owner_username, owner_id) ==
    IF Len(owner_username) > 0 THEN [kind |-> "user", name |-> casefold(owner_username)]
    ELSE IF Len(owner_id) > 0 THEN [kind |-> "user_id", name |-> owner_id]
    ELSE NoUser

\* the guard comparing with > where the code has >=
apply_dominance_guard_off_by_one(decision, owner_username, owner_id, max_posts_per_user, user_counts) ==
    LET user_key == user_key_of(owner_username, owner_id)
        same     == [decision |-> decision, user_counts |-> user_counts]
    IN  IF ~decision.eligible THEN same
        ELSE IF max_posts_per_user <= 0 THEN same
        ELSE IF user_key = NoUser THEN same
        ELSE IF Count(user_counts, user_key) > max_posts_per_user
             THEN [decision |-> [decision EXCEPT
                                   !.eligible = FALSE,
                                   !.eligibility_reasons = Append(@, "dominance_guard")],
                   user_counts |-> user_counts]
        ELSE [decision |-> decision, user_counts |-> Inc(user_counts, user_key)]

\* the guard without the early return for a cap of 0
apply_dominance_guard_no_disable(decision, owner_username, owner_id, max_posts_per_user, user_counts) ==
    LET user_key == user_key_of(owner_username, owner_id)
        same     == [decision |-> decision, user_counts |-> user_counts]
    IN  IF ~decision.eligible THEN same
        ELSE IF user_key = NoUser THEN same
        ELSE IF Count(user_counts, user_key) >= max_posts_per_user
             THEN [decision |-> [decision EXCEPT
                                   !.eligible = FALSE,
                                   !.eligibility_reasons = Append(@, "dominance_guard")],
                   user_counts |-> user_counts]
        ELSE [decision |-> decision, user_counts |-> Inc(user_counts, user_key)]

\* the decision returned and the counters after the call
apply_dominance_guard(decision, owner_username, owner_id, max_posts_per_user, user_counts) ==
    LET user_key == user_key_of(owner_username, owner_id)
        same     == [decision |-> decision, user_counts |-> user_counts]
    IN  IF ~decision.eligible THEN same
        ELSE IF max_posts_per_user <= 0 THEN same
        ELSE IF user_key = NoUser THEN same
        ELSE IF Count(user_counts, user_key) >= max_posts_per_user
             THEN [decision |-> [decision EXCEPT
                                   !.eligible = FALSE,
                                   !.eligibility_reasons = Append(@, "dominance_guard")],
                   user_counts |-> user_counts]
        ELSE [decision |-> decision, user_counts |-> Inc(user_counts, user_key)]

\* ------------------------------------------------------------------------
\* loop.py _selected_expansion_terms
\* ------------------------------------------------------------------------

\* sort key (-freq, term.casefold(), term)
CandBefore(a, b) ==
    IF a.freq # b.freq THEN a.freq > b.freq
    ELSE IF casefold(a.term) # casefold(b.term) THEN StrLess(casefold(a.term), casefold(b.term))
    ELSE StrLess(a.term, b.term)

RECURSIVE SortCands(_)
SortCands(S) ==
    IF S = {} THEN <<>>
    ELSE LET m == CHOOSE x \in S : \A y \in S \ {x} : CandBefore(x, y)
         IN  <<m>> \o SortCands(S \ {m})

RECURSIVE TakeTerms(_, _, _)
TakeTerms(cands, min_freq, max_terms) ==
    IF Len(cands) = 0 \/ max_terms <= 0 THEN <<>>
    ELSE IF Head(cands).freq < min_freq THEN <<>>
    ELSE <<Head(cands).term>> \o TakeTerms(Tail(cands), min_freq, max_terms - 1)

\* the selection without the filter on the terms currently queued
selected_expansion_terms_requeues(hashtag_counts, min_freq, max_terms, blocklist_keys, attempted_keys, present_keys) ==
    IF max_terms <= 0 THEN <<>>
    ELSE LET candidates ==
                 {[freq |-> hashtag_counts[t], term |-> t] :
                    t \in {x \in DOMAIN hashtag_counts :
                             /\ casefold(x) \notin blocklist_keys
                             /\ casefold(x) \notin attempted_keys}}
         IN  TakeTerms(SortCands(candidates), min_freq, max_terms)

selected_expansion_terms(hashtag_counts, min_freq, max_terms, blocklist_keys, attempted_keys, present_keys) ==
    IF max_terms <= 0 THEN <<>>
    ELSE LET candidates ==
                 {[freq |-> hashtag_counts[t], term |-> t] :
                    t \in {x \in DOMAIN hashtag_counts :
                             /\ casefold(x) \notin blocklist_keys
                             /\ casefold(x) \notin attempted_keys
                             /\ casefold(x) \notin present_keys}}
         IN  TakeTerms(SortCands(candidates), min_freq, max_terms)

\* ------------------------------------------------------------------------
\* storage.py / storage_schema.py: tables as values.
\*   runs            sequence of rows, a row per run_id
\*   apify_actor_runs sequence of rows, unique on (run_id, actor_run_id)
\*   raw_posts       function post_key -> row
\*   llm_decisions   sequence of rows; the AUTOINCREMENT id is the index
\* ------------------------------------------------------------------------

\* ended_at IS NULL; timestamps are positive
NULL == 0

\* SQLiteStateStore.create_run: INSERT OR IGNORE
create_run(rs, rid, start) ==
    IF \E i \in 1..Len(rs) : rs[i].run_id = rid THEN rs
    ELSE Append(rs, [run_id |-> rid, started_at |-> start, ended_at |-> NULL])

\* finish_run without its WHERE clause
finish_run_all_rows(rs, rid, end) ==
    [i \in 1..Len(rs) |-> [rs[i] EXCEPT !.ended_at = end]]

\* SQLiteStateStore.finish_run: UPDATE runs SET ended_at = ? WHERE run_id = ?
finish_run(rs, rid, end) ==
    [i \in 1..Len(rs) |->
        IF rs[i].run_id = rid THEN [rs[i] EXCEPT !.ended_at = end] ELSE rs[i]]

\* SQLiteStateStore.get_run (the row, for a run_id that exists)
get_run(rs, rid) == rs[CHOOSE i \in 1..Len(rs) : rs[i].run_id = rid]

\* SQLiteStateStore.record_apify_actor_run: INSERT OR IGNORE
record_apify_actor_run(ars, rid, actor_id, actor_run_id) ==
    IF \E i \in 1..Len(ars) : ars[i].run_id = rid /\ ars[i].actor_run_id = actor_run_id
    THEN ars
    ELSE Append(ars, [run_id |-> rid, actor_id |-> actor_id, actor_run_id |-> actor_run_id])

\* upsert that keeps the row it finds
upsert_raw_post_or_ignore(rp, post_key, url, raw_item, actor_source, ts) ==
    IF post_key \in DOMAIN rp THEN rp
    ELSE [k \in DOMAIN rp \cup {post_key} |->
             IF k = post_key
             THEN [url |-> url, actor_source |-> actor_source, raw_json |-> raw_item,
                   fetched_at |-> ts]
             ELSE rp[k]]

\* SQLiteStateStore.upsert_raw_post; actor_source "" stands for None
upsert_raw_post(rp, post_key, url, raw_item, actor_source, ts) ==
    LET src == IF actor_source # "" THEN actor_source
               ELSE IF post_key \in DOMAIN rp THEN rp[post_key].actor_source
               ELSE ""
        row == [url |-> url, actor_source |-> src, raw_json |-> raw_item, fetched_at |-> ts]
    IN  [k \in DOMAIN rp \cup {post_key} |-> IF k = post_key THEN row ELSE rp[k]]

\* seen_post_keys that reads nothing back
seen_post_keys_none(rp) == {}

\* SQLiteStateStore.seen_post_keys
seen_post_keys(rp) == DOMAIN rp

\* SQLiteStateStore.record_llm_decision: the table after the call and whether
\* the foreign key on raw_posts(post_key) made it raise StorageError
record_llm_decision(ld, rp, post_key, decision, ts) ==
    IF post_key \notin DOMAIN rp THEN [rows |-> ld, raised |-> TRUE]
    ELSE [rows |-> Append(ld, [post_key |-> post_key, eligible |-> decision.eligible,
                               decision_json |-> decision, created_at |-> ts]),
          raised |-> FALSE]

\* the latest decision taken to be the one with the greatest created_at
latest_llm_decisions_by_created_at(ld) ==
    {i \in 1..Len(ld) :
        \A j \in 1..Len(ld) :
            ld[j].post_key = ld[i].post_key =>
                (ld[j].created_at < ld[i].created_at \/ (ld[j].created_at = ld[i].created_at /\ j <= i))}

\* view latest_llm_decisions: the ids of the rows with MAX(id) per post_key
latest_llm_decisions(ld) ==
    {i \in 1..Len(ld) : \A j \in 1..Len(ld) : ld[j].post_key = ld[i].post_key => j <= i}

\* view eligible_posts: ids of the latest decisions that are eligible, joined to raw_posts
eligible_posts(rp, ld) ==
    {i \in latest_llm_decisions(ld) : ld[i].eligible /\ ld[i].post_key \in DOMAIN rp}

\* _raw_count that starts from zero
raw_count_from_zero(rp) == 0

\* loop.py _eligible_count, _raw_count, _decision_count
eligible_count(rp, ld) == Cardinality(eligible_posts(rp, ld))

raw_count(rp) == Cardinality(DOMAIN rp)

decision_count(ld) == Len(ld)

\* loop.py _load_existing_counters, over the rows with id <= n
RECURSIVE load_counters_upto(_, _, _)
load_counters_upto(rp, ld, n) ==
    IF n = 0 THEN [hashtag_counts |-> EmptyCounter, user_counts |-> EmptyCounter]
    ELSE LET prev == load_counters_upto(rp, ld, n - 1)
         IN  IF n \notin eligible_posts(rp, ld) THEN prev
             ELSE LET post == normalized_post_from_apify_item(rp[ld[n].post_key].raw_json)
                      user_key == user_key_of(post.owner_username, post.owner_id)
                  IN  IF post = NoPost THEN prev
                      ELSE [hashtag_counts |-> IncAll(prev.hashtag_counts, post.hashtags),
                            user_counts |-> IF user_key = NoUser THEN prev.user_counts
                                            ELSE Inc(prev.user_counts, user_key)]

load_existing_counters(rp, ld) == load_counters_upto(rp, ld, Len(ld))

\* ------------------------------------------------------------------------
\* What the collaborators can return
\* ------------------------------------------------------------------------

PostUrl(n) == [scheme |-> "https", host |-> <<"example", "com">>,
               segs |-> <<<<"p">>, <<n>>>>, slash |-> FALSE, query |-> "", frag |-> ""]

TagUrl(tag) == [scheme |-> "https", host |-> <<"www", "instagram", "com">>,
                segs |-> <<<<"explore">>, <<"tags">>, tag>>, slash |-> TRUE,
                query |-> "", frag |-> ""]

\* an item without any of the fields read
NoItem == [url |-> NoUrl, id |-> <<>>, shortCode |-> <<>>, ownerUsername |-> <<>>,
           ownerId |-> <<>>, caption_len |-> 0, hashtags |-> <<>>,
           productType |-> <<>>, type |-> <<>>, isSponsored |-> FALSE]

RawItem(url, id, shortCode, ownerUsername, ownerId, caption_len, hashtags) ==
    [url |-> url, id |-> id, shortCode |-> shortCode, ownerUsername |-> ownerUsername,
     ownerId |-> ownerId, caption_len |-> caption_len, hashtags |-> hashtags,
     productType |-> <<>>, type |-> <<>>, isSponsored |-> FALSE]

\* two posts of the same owner (user names differing in case), a post of an
\* owner known by id only whose second hashtag carries two "#", a post with a
\* short caption
Item1 == RawItem(PostUrl("1"), <<"1">>, <<>>, <<"A">>, <<>>, 80, <<<<"#", "b">>>>)
Item2 == RawItem(PostUrl("2"), <<"2">>, <<>>, <<"a">>, <<"7">>, 80, <<<<"b">>, <<"B">>, <<"c">>>>)
Item3 == RawItem(PostUrl("3"), <<>>, <<"x">>, <<>>, <<"7">>, 80,
                 <<<<"c">>, <<"#", "#", "b">>>>)
Item4 == RawItem(PostUrl("4"), <<>>, <<>>, <<>>, <<>>, 5, <<>>)

ItemUniverse == {Item1, Item2, Item3, Item4}

\* the item lists a discovery or scrape call may return
ItemLists == UNION {[1..n -> ItemUniverse] : n \in 0..MaxItemsPerCall}

Decision(eligible, is_english, is_topic, is_analyzable, is_commercial, reason) ==
    [eligible |-> eligible, eligibility_reasons |-> <<reason>>,
     is_english |-> is_english, is_bodyweight_calisthenics |-> is_topic,
     is_analyzable |-> is_analyzable, is_exclusively_commercial |-> is_commercial]

\* decisions the labeling collaborator may return: consistent accept,
\* consistent reject, and an accept whose structured fields say otherwise
Decisions ==
    { Decision(TRUE, TRUE, TRUE, TRUE, FALSE, "ok"),
      Decision(FALSE, TRUE, FALSE, TRUE, FALSE, "reject"),
      Decision(TRUE, FALSE, TRUE, TRUE, FALSE, "ok") }

\* the lists of hashtag-search results one search call may return
SearchLists ==
    { <<>>,
      <<[url |-> TagUrl(<<"c">>)], [url |-> PostUrl("9")]>> }

\* configured querying.seed_terms
SeedChoices == { <<<<"a">>>>, <<<<"#">>>> }

\* config_schema.py defaults kept as they are
DefaultFilters == [min_caption_chars |-> 40, allow_reels |-> TRUE,
                   reject_if_sponsored_true |-> FALSE]

ConfigsWith(window, min_new, caps) ==
    { [pool_n |-> PoolN, max_iterations |-> MaxIterations, max_raw_items |-> MaxRawItems,
       max_posts_per_user |-> cap, run_batch_queries |-> RunBatchQueries,
       seed_terms |-> seeds, expansion_enabled |-> TRUE,
       max_new_terms_per_iter |-> 15, min_hashtag_freq_in_eligible |-> 1,
       blocklist_terms |-> <<>>,
       stagnation_window |-> window,
       stagnation_min_new_eligible |-> min_new,
       results_limit_per_query |-> 150,
       filters |-> DefaultFilters] :
      cap \in caps, seeds \in SeedChoices }

Configs == ConfigsWith(StagnationWindow, StagnationMinNew, 0..MaxCap)

\* deployments whose tracker looks at one iteration and asks for more new
\* eligible items than the window is long; no dominance cap
EagerConfigs == ConfigsWith(EagerWindow, EagerMinNew, {0})

\* ------------------------------------------------------------------------
\* storage_schema.py: the schema of a database file and its migrations.
\* The schema is a function from the name of an object to the columns of a
\* table, or to {} for an index or a view.
\* ------------------------------------------------------------------------

SCHEMA_VERSION == 1

NoSchema == [n \in {} |-> {}]

\* a file that was never opened
EmptyDb ==
    [schema |-> NoSchema, schema_migrations |-> <<>>,
     raw_posts |-> [k \in {} |-> 0], llm_decisions |-> <<>>,
     final_sample_runs |-> [r \in {} |-> 0], final_samples |-> {}]

Table(name, cols) == [kind |-> "table", name |-> name, cols |-> cols, on |-> "", col |-> ""]

Index(name, on, col) == [kind |-> "index", name |-> name, cols |-> {}, on |-> on, col |-> col]

View(name) == [kind |-> "view", name |-> name, cols |-> {}, on |-> "", col |-> ""]

\* _MIGRATIONS: the statements of each version's script, in order
MIGRATIONS(version) ==
    IF version = 1 THEN
      << Table("schema_migrations", {"version", "applied_at"}),
         Table("runs", {"run_id", "started_at", "ended_at", "config_hash",
                        "sampling_seed", "versions_json"}),
         Table("apify_actor_runs", {"id", "run_id", "actor_id", "actor_run_id",
                                    "dataset_id", "created_at"}),
         Index("idx_apify_actor_runs_run_id", "apify_actor_runs", "run_id"),
         Table("raw_posts", {"post_key", "url", "actor_source", "raw_json", "fetched_at"}),
         Index("idx_raw_posts_url", "raw_posts", "url"),
         Table("llm_decisions", {"id", "post_key", "url", "model", "eligible",
                                 "overall_confidence", "decision_json", "tokens_total",
                                 "created_at"}),
         Index("idx_llm_decisions_post_key", "llm_decisions", "post_key"),
         Index("idx_llm_decisions_eligible", "llm_decisions", "eligible"),
         Index("idx_llm_decisions_created_at", "llm_decisions", "created_at"),
         View("latest_llm_decisions"),
         View("eligible_posts") >>
    ELSE <<>>

\* one CREATE ... IF NOT EXISTS statement: nothing happens when the name is
\* taken; an index on a missing table or column raises OperationalError
execute_create(schema, stmt) ==
    IF stmt.name \in DOMAIN schema THEN [schema |-> schema, raised |-> FALSE]
    ELSE IF stmt.kind = "index" /\ ~(stmt.on \in DOMAIN schema /\ stmt.col \in schema[stmt.on])
    THEN [schema |-> schema, raised |-> TRUE]
    ELSE [schema |-> [n \in DOMAIN schema \cup {stmt.name} |->
                         IF n = stmt.name THEN stmt.cols ELSE schema[n]],
          raised |-> FALSE]

\* sqlite3 Connection.executescript: the statements run one after the other
\* outside the transaction of the connection, each committed as it ends; the
\* script stops at the first statement that raises
RECURSIVE executescript(_, _)
executescript(schema, script) ==
    IF Len(script) = 0 THEN [schema |-> schema, raised |-> FALSE]
    ELSE LET r == execute_create(schema, Head(script))
         IN  IF r.raised THEN r ELSE executescript(r.schema, Tail(script))

\* _apply_migrations, lines 137-150: the versions from version on
RECURSIVE apply_versions(_, _)
apply_versions(d, version) ==
    IF version > SCHEMA_VERSION THEN [db |-> d, raised |-> FALSE]
    ELSE IF version \in Range(d.schema_migrations) THEN apply_versions(d, version + 1)
    ELSE IF Len(MIGRATIONS(version)) = 0 THEN [db |-> d, raised |-> TRUE]
    ELSE LET r == executescript(d.schema, MIGRATIONS(version))
             d1 == [d EXCEPT !.schema = r.schema]
         IN  IF r.raised THEN [db |-> d1, raised |-> TRUE]
             ELSE apply_versions(
                      [d1 EXCEPT !.schema_migrations = Append(d.schema_migrations, version)],
                      version + 1)

\* _apply_migrations: the ledger table, then the versions not yet in it
apply_migrations(d) ==
    LET r == execute_create(d.schema, Table("schema_migrations", {"version", "applied_at"}))
    IN  apply_versions([d EXCEPT !.schema = r.schema], 1)

\* foreign keys left off
configure_connection_no_foreign_keys == [open |-> TRUE, foreign_keys |-> FALSE]

\* _configure_connection: PRAGMA foreign_keys = ON
configure_connection == [open |-> TRUE, foreign_keys |-> TRUE]

Closed == [open |-> FALSE, foreign_keys |-> FALSE]

\* record_llm_decision on a connection that does not enforce foreign keys
insert_llm_decision(ld, post_key, decision, ts) ==
    [rows |-> Append(ld, [post_key |-> post_key, eligible |-> decision.eligible,
                          decision_json |-> decision, created_at |-> ts]),
     raised |-> FALSE]

\* SQLiteStateStore.latest_decision: ORDER BY id DESC LIMIT 1; NoRow for None
NoRow == [post_key |-> <<>>, eligible |-> FALSE, decision_json |-> "", created_at |-> 0]

latest_decision(ld, post_key) ==
    LET ids == {i \in 1..Len(ld) : ld[i].post_key = post_key}
    IN  IF ids = {} THEN NoRow
        ELSE ld[CHOOSE i \in ids : \A j \in ids : j <= i]

\* (actor_source or "").strip() or None, with "" for None
none_if_blank(text) == IF text \in {"", " "} THEN "" ELSE text

\* ------------------------------------------------------------------------
\* final_sample.py and export_excel.py
\* ------------------------------------------------------------------------

\* pool_keys_sha256: the digest of the ordered key list, taken to be free of
\* collisions
pool_keys_sha256(pool_keys) == [sha256_of |-> pool_keys]

\* a draw of random.Random(seed): a fixed function of the seed and of the
\* number of the draw, below m
randbelow(seed, draw, m) == (seed * 7 + draw * 3 + seed * draw + 1) % m

\* random.Random.sample, the loop over a copy of the population: draw i takes
\* pool[j] and moves the last live element into its place
RECURSIVE sample_loop(_, _, _, _)
sample_loop(pool, k, seed, i) ==
    IF i = k THEN <<>>
    ELSE LET n == Len(pool)
             j == randbelow(seed, i, n - i) + 1
             pool1 == [pool EXCEPT ![j] = pool[n - i]]
         IN  <<pool[j]>> \o sample_loop(pool1, k, seed, i + 1)

\* random.Random(seed).sample(population, k); ValueError unless 0 <= k <= n
sample(population, k, seed) ==
    IF k < 0 \/ k > Len(population) THEN [chosen |-> <<>>, raised |-> TRUE]
    ELSE [chosen |-> sample_loop(population, k, seed, 0), raised |-> FALSE]

\* pick_final_keys without the min
pick_final_keys_uncapped(pool_keys, final_n, seed) ==
    IF final_n <= 0 \/ Len(pool_keys) = 0 THEN [keys |-> {}, raised |-> FALSE]
    ELSE LET r == sample(pool_keys, final_n, seed)
         IN  [keys |-> Range(r.chosen), raised |-> r.raised]

\* pick_final_keys
pick_final_keys(pool_keys, final_n, seed) ==
    IF final_n <= 0 \/ Len(pool_keys) = 0 THEN [keys |-> {}, raised |-> FALSE]
    ELSE LET n == IF final_n < Len(pool_keys) THEN final_n ELSE Len(pool_keys)
             r == sample(pool_keys, n, seed)
         IN  [keys |-> Range(r.chosen), raised |-> r.raised]

\* ORDER BY d.created_at ASC, p.post_key ASC
PoolBefore(ld, i, j) ==
    \/ ld[i].created_at < ld[j].created_at
    \/ ld[i].created_at = ld[j].created_at /\ StrLess(ld[i].post_key, ld[j].post_key)

RECURSIVE SortPool(_, _)
SortPool(ld, ids) ==
    IF ids = {} THEN <<>>
    ELSE LET i == CHOOSE a \in ids : \A b \in ids \ {a} : PoolBefore(ld, a, b)
         IN  <<ld[i].post_key>> \o SortPool(ld, ids \ {i})

\* export_excel.py _fetch_latest_posts_with_decisions(eligible=True,
\* order_asc=True), the post keys of its rows
fetch_pool_keys(rp, ld, limit) ==
    IF limit <= 0 THEN <<>> ELSE FirstN(SortPool(ld, eligible_posts(rp, ld)), limit)

NoMeta == [run_id |-> "", sampling_seed |-> 0, pool_n |-> 0, final_n |-> 0,
           pool_keys_sha256 |-> pool_keys_sha256(<<>>)]

\* load_final_sample_meta: the row of the run, NoMeta for None; raises
\* OperationalError on a file without the table
load_final_sample_meta(d, rid) ==
    IF "final_sample_runs" \notin DOMAIN d.schema THEN [meta |-> NoMeta, raised |-> TRUE]
    ELSE IF rid \in DOMAIN d.final_sample_runs
    THEN [meta |-> d.final_sample_runs[rid], raised |-> FALSE]
    ELSE [meta |-> NoMeta, raised |-> FALSE]

\* load_final_sample_keys
load_final_sample_keys(d, rid) == {m[2] : m \in {x \in d.final_samples : x[1] = rid}}

\* ------------------------------------------------------------------------
\* State
\* ------------------------------------------------------------------------

VARIABLES
    cfg,                \* the AppConfig of this deployment
    now,                \* the clock read by _utc_now_iso
    \* the store (state.sqlite)
    runs, apify_actor_runs, raw_posts, llm_decisions,
    \* the caller
    pc,                 \* "idle", "iter", "ingest", "returned", "aborted", "type_error"
    calls,              \* run_feedback_loop calls made so far
    resume_arg,         \* the resume keyword argument of the current call
    result,             \* the FeedbackLoopResult returned, NoResult before
    \* locals of run_feedback_loop
    run_id, iteration, eligible_total, raw_total, decision_total,
    seen_keys, hashtag_counts, user_counts, attempted_keys, queue, stagnation,
    current_results_limit,
    \* locals of _ingest_post_items
    items, phase, actor_source, new_eligible,
    \* history (not read by the program)
    discoveries,        \* primary.run_and_fetch calls that returned
    classify_calls,     \* post_key -> number of classify_with_metadata calls
    finish_calls,       \* run_id -> number of finish_run calls
    unfinished_at_call, \* run_ids with ended_at NULL when the current call was made
    last,               \* the last labelled item: decision returned, decision stored
    failed_key,         \* post_key whose labeling raised in the current call
    fallback_calls,     \* calls made to the fallback discovery collaborator
    \* the components exercised on their own
    tq, tq_last,            \* a TermQueue, and the last call made on it
    tracker, tracker_last,  \* a StagnationTracker, and the calls made on it
    exp_call,               \* one call of _selected_expansion_terms
    \* a database file used through SQLiteStateStore and final_sample.py
    db,                     \* the committed content of the file
    conn,                   \* the connection of the store that open() returned
    op_last,                \* the last call made on the store, and logs of the calls
    pick,                   \* one call of pick_final_keys
    fs,                     \* the callers of ensure_final_sample, one per connection
    fs_hist,                \* whose metadata row each run's final sample has
    \* pure functions and helpers exercised on their own
    keyed,                  \* two discovered items and their dedupe keys
    retry                   \* one call of call_with_retries

store == <<runs, apify_actor_runs, raw_posts, llm_decisions>>

locals == <<run_id, iteration, eligible_total, raw_total, decision_total,
            seen_keys, hashtag_counts, user_counts, attempted_keys, queue, stagnation,
            current_results_limit, items, phase, actor_source, new_eligible>>

history == <<discoveries, classify_calls, finish_calls, unfinished_at_call, last, failed_key>>

aux == <<db, conn, op_last, pick, fs, fs_hist>>

aux2 == <<keyed, retry>>

unit == <<tq, tq_last, tracker, tracker_last, exp_call, aux, aux2>>

vars == <<cfg, now, store, pc, calls, resume_arg, result, locals, history, fallback_calls,
          unit>>

NoResult == [run_id |-> 0, status |-> "none", iterations |-> 0,
             raw_posts |-> 0, decisions |-> 0, eligible |-> 0]

NoKey == [kind |-> "none", id |-> <<>>, url |-> NoUrl]

NoDecision == Decision(FALSE, FALSE, FALSE, FALSE, FALSE, "none")

\* rest: the items of the batch that followed the labelled item
NoLast == [post_key |-> NoKey, returned |-> NoDecision, stored |-> NoDecision,
           user_key |-> NoUser, count_before |-> 0, counts_before |-> EmptyCounter,
           counts_after |-> EmptyCounter, rest |-> <<>>]

\* op, arg: the call; before: the queue it was made on; ret, out, raised: its
\* outcome; log: the terms enqueued so far, in order; popped: how many left
NoQueueCall == [op |-> "none", arg |-> <<>>, before |-> EmptyQueue, ret |-> FALSE,
                out |-> <<>>, raised |-> FALSE, log |-> <<>>, popped |-> 0]

NoTracker == [window_size |-> 0, min_new_total |-> 0, values |-> <<>>, seen |-> 0]

NoPushes == [pushed |-> <<>>, rets |-> <<>>]

NoExpansionCall == [hashtag_counts |-> EmptyCounter, min_freq |-> 0, max_terms |-> 0,
                    blocklist_keys |-> {}, attempted_keys |-> {}, present_keys |-> {},
                    done |-> FALSE, out |-> <<>>]

\* the locals of a call that is not running
BlankLocals ==
    /\ run_id' = 0
    /\ iteration' = 0
    /\ eligible_total' = 0
    /\ raw_total' = 0
    /\ decision_total' = 0
    /\ seen_keys' = {}
    /\ hashtag_counts' = EmptyCounter
    /\ user_counts' = EmptyCounter
    /\ attempted_keys' = {}
    /\ queue' = EmptyQueue
    /\ stagnation' = StagnationTracker_init
    /\ current_results_limit' = 0
    /\ items' = <<>>
    /\ phase' = "none"
    /\ actor_source' = ""
    /\ new_eligible' = 0

MainInitIn(C) ==
    /\ cfg \in C
    /\ now = 1
    /\ runs = <<>>
    /\ apify_actor_runs = <<>>
    /\ raw_posts = [k \in {} |-> 0]
    /\ llm_decisions = <<>>
    /\ pc = "idle"
    /\ calls = 0
    /\ resume_arg = FALSE
    /\ result = NoResult
    /\ run_id = 0
    /\ iteration = 0
    /\ eligible_total = 0
    /\ raw_total = 0
    /\ decision_total = 0
    /\ seen_keys = {}
    /\ hashtag_counts = EmptyCounter
    /\ user_counts = EmptyCounter
    /\ attempted_keys = {}
    /\ queue = EmptyQueue
    /\ stagnation = StagnationTracker_init
    /\ current_results_limit = 0
    /\ items = <<>>
    /\ phase = "none"
    /\ actor_source = ""
    /\ new_eligible = 0
    /\ discoveries = 0
    /\ classify_calls = EmptyCounter
    /\ finish_calls = EmptyCounter
    /\ unfinished_at_call = {}
    /\ last = NoLast
    /\ failed_key = NoKey
    /\ fallback_calls = 0

\* op: the call; before: the file it was made on; raised: the exception, or
\* "none"; upserted: the keys upserted so far; log: the decisions recorded so
\* far, in order; opens: the open() calls; n: the other calls
NoOp == [op |-> "none", key |-> <<>>, url |-> <<>>, raw_item |-> "", actor_source |-> "",
         ts |-> 0, eligible |-> FALSE, before |-> EmptyDb, raised |-> "none",
         pool |-> <<>>, pool_n |-> 0, final_n |-> 0,
         upserted |-> {}, log |-> <<>>, opens |-> 0, n |-> 0]

NoPick == [pool_keys |-> <<>>, final_n |-> 0, seed |-> 0, done |-> FALSE,
           keys |-> {}, raised |-> FALSE]

\* pc: "idle", "load_keys", "pick", "begin", "insert_keys", "commit",
\* "read_back", "returned", "raised"
NoCall == [pc |-> "idle", run_id |-> "", pool_keys |-> <<>>, sampling_seed |-> 0,
           pool_n |-> 0, final_n |-> 0, persist |-> FALSE, existing |-> NoMeta,
           keys |-> {}, meta |-> NoMeta, wrote_meta |-> FALSE, pending |-> {},
           ret_keys |-> {}, ret_meta |-> NoMeta, n |-> 0]

Connections == {1, 2}

\* a, b: two raw items; done: whether their keys were computed
NoKeyed == [a |-> NoItem, b |-> NoItem, done |-> FALSE, key_a |-> NoKey, key_b |-> NoKey]

\* the RetryConfig and, per attempt, what fn() and the jitter do; done: the
\* call was made; events: the calls it made to fn, is_retryable and sleep_fn,
\* in order; end, attempt: how it ended ("returned", "raised") and in which
\* attempt
NoRetry == [max_attempts |-> 0, base_delay_seconds |-> 0, jitter_ratio |-> 0,
            outcomes |-> <<>>, done |-> FALSE, events |-> <<>>, end |-> "none",
            attempt |-> 0]

\* neither a store nor a final sample is exercised on its own
AuxIdle ==
    /\ db = EmptyDb
    /\ conn = Closed
    /\ op_last = NoOp
    /\ pick = NoPick
    /\ fs = [c \in Connections |-> NoCall]
    /\ fs_hist = [r \in {} |-> {}]
    /\ keyed = NoKeyed
    /\ retry = NoRetry

\* no component is exercised on its own
UnitIdle ==
    /\ tq = EmptyQueue
    /\ tq_last = NoQueueCall
    /\ tracker = NoTracker
    /\ tracker_last = NoPushes
    /\ exp_call = NoExpansionCall
    /\ AuxIdle

Init == MainInitIn(Configs) /\ UnitIdle

CallPossible == pc \in {"idle", "returned", "aborted", "type_error"} /\ calls < MaxCalls

Unfinished(rs) == {rs[i].run_id : i \in {j \in 1..Len(rs) : rs[j].ended_at = NULL}}

\* run_feedback_loop(..., resume=True): the signature (loop.py 241-249) has no
\* such parameter, the call raises TypeError before the body runs
CallWithResume ==
    /\ CallPossible
    /\ calls' = calls + 1
    /\ resume_arg' = TRUE
    /\ pc' = "type_error"
    /\ result' = NoResult
    /\ unfinished_at_call' = Unfinished(runs)
    /\ last' = NoLast
    /\ failed_key' = NoKey
    /\ BlankLocals
    /\ UNCHANGED <<cfg, now, store, discoveries, classify_calls, finish_calls,
                   fallback_calls, unit>>

\* run_feedback_loop lines 250-288: a new run row, then the counters, seen
\* keys, queue and tracker are set up from the store and the configuration
StartRun ==
    /\ CallPossible
    /\ calls' = calls + 1
    /\ resume_arg' = FALSE
    /\ result' = NoResult
    /\ unfinished_at_call' = Unfinished(runs)
    /\ last' = NoLast
    /\ failed_key' = NoKey
    /\ LET rid == Len(runs) + 1      \* uuid4: an id no run has
           counters == load_existing_counters(raw_posts, llm_decisions)
       IN  /\ runs' = create_run(runs, rid, now)
           /\ now' = now + 1
           /\ run_id' = rid
           /\ eligible_total' = eligible_count(raw_posts, llm_decisions)
           /\ raw_total' = raw_count(raw_posts)
           /\ decision_total' = decision_count(llm_decisions)
           /\ seen_keys' = seen_post_keys(raw_posts)
           /\ hashtag_counts' = counters.hashtag_counts
           /\ user_counts' = counters.user_counts
    /\ attempted_keys' = {}
    /\ queue' = TermQueue_init(cfg.seed_terms)
    /\ stagnation' = StagnationTracker_init
    /\ current_results_limit' = cfg.results_limit_per_query
    /\ iteration' = 0
    /\ items' = <<>>
    /\ phase' = "none"
    /\ actor_source' = ""
    /\ new_eligible' = 0
    /\ pc' = "iter"
    /\ UNCHANGED <<cfg, apify_actor_runs, raw_posts, llm_decisions,
                   discoveries, classify_calls, finish_calls, fallback_calls, unit>>

\* ------------------------------------------------------------------------
\* run_feedback_loop: the counted loop, lines 359-497
\* ------------------------------------------------------------------------

\* store.finish_run(run_record.run_id); return FeedbackLoopResult(...)
ReturnResult(status, iterations) ==
    /\ runs' = finish_run(runs, run_id, now)
    /\ now' = now + 1
    /\ finish_calls' = Inc(finish_calls, run_id)
    /\ result' = [run_id |-> run_id, status |-> status, iterations |-> iterations,
                  raw_posts |-> raw_total, decisions |-> decision_total,
                  eligible |-> eligible_total]
    /\ pc' = "returned"
    /\ BlankLocals
    /\ UNCHANGED <<cfg, apify_actor_runs, raw_posts, llm_decisions, calls, resume_arg,
                   discoveries, classify_calls, unfinished_at_call, last, failed_key,
                   fallback_calls, unit>>

\* an exception leaves run_feedback_loop: nothing more is written
Abort ==
    /\ pc' = "aborted"
    /\ BlankLocals
    /\ UNCHANGED <<cfg, calls, resume_arg, result, discoveries, finish_calls,
                   unfinished_at_call, unit>>

\* the pool return reporting the iteration number counted from one
ReturnCompletedPool_counts_from_one ==
    /\ pc = "iter"
    /\ iteration < cfg.max_iterations
    /\ eligible_total >= cfg.pool_n
    /\ ReturnResult("completed_pool", iteration + 1)

\* lines 360-369
ReturnCompletedPool ==
    /\ pc = "iter"
    /\ iteration < cfg.max_iterations
    /\ eligible_total >= cfg.pool_n
    /\ ReturnResult("completed_pool", iteration)

\* lines 371-380
ReturnMaxRawItems ==
    /\ pc = "iter"
    /\ iteration < cfg.max_iterations
    /\ eligible_total < cfg.pool_n
    /\ raw_total >= cfg.max_raw_items
    /\ ReturnResult("max_raw_items", iteration)

\* the batch popped without the refill from the seed terms
PoppedBatch_no_refill == TermQueue_pop_batch(queue, cfg.run_batch_queries)

\* lines 382-385: the batch popped, and the queue left, after the one refill
PoppedBatch ==
    LET first  == TermQueue_pop_batch(queue, cfg.run_batch_queries)
        refill == TermQueue_add_many(first.q, cfg.seed_terms).q
    IN  IF Len(first.out) > 0 THEN first
        ELSE TermQueue_pop_batch(refill, cfg.run_batch_queries)

CanDiscover ==
    /\ pc = "iter"
    /\ iteration < cfg.max_iterations
    /\ eligible_total < cfg.pool_n
    /\ raw_total < cfg.max_raw_items

\* lines 387-396
ReturnEmptyQueue ==
    /\ CanDiscover
    /\ Len(PoppedBatch.out) = 0
    /\ ReturnResult("empty_query_queue", iteration)

\* lines 489-497: the loop ran max_iterations times
ReturnMaxIterations ==
    /\ pc = "iter"
    /\ iteration >= cfg.max_iterations
    /\ ReturnResult("max_iterations", cfg.max_iterations)

\* a run reference as the discovery collaborator hands it out
NewActorRunId == Len(apify_actor_runs) + 1

\* lines 398-411: primary.run_and_fetch returns found
PrimaryDiscovery ==
    /\ CanDiscover
    /\ Len(PoppedBatch.out) > 0
    /\ discoveries < MaxDiscoveries
    /\ discoveries' = discoveries + 1
    /\ \E found \in ItemLists :
         /\ items' = found
         /\ queue' = PoppedBatch.q
         /\ attempted_keys' = attempted_keys \cup {casefold(b) : b \in Range(PoppedBatch.out)}
         /\ apify_actor_runs' =
                record_apify_actor_run(apify_actor_runs, run_id, "primary", NewActorRunId)
         /\ phase' = "primary"
         /\ actor_source' = "primary"
         /\ new_eligible' = 0
         /\ pc' = "ingest"
    /\ UNCHANGED <<cfg, now, runs, raw_posts, llm_decisions, calls, resume_arg, result,
                   run_id, iteration, eligible_total, raw_total, decision_total,
                   seen_keys, hashtag_counts, user_counts, stagnation,
                   current_results_limit, classify_calls, finish_calls,
                   unfinished_at_call, last, failed_key, fallback_calls, unit>>

\* line 403: primary.run_and_fetch raises
PrimaryDiscoveryRaises ==
    /\ CanDiscover
    /\ Len(PoppedBatch.out) > 0
    /\ Abort
    /\ UNCHANGED <<now, store, classify_calls, last, failed_key, fallback_calls>>

\* ------------------------------------------------------------------------
\* run_feedback_loop._ingest_post_items, lines 299-357: one item per step
\* ------------------------------------------------------------------------

ItemPost == normalized_post_from_apify_item(Head(items))

ItemKey == dedupe_key(ItemPost)

Ingesting == pc = "ingest" /\ Len(items) > 0

\* what one step leaves alone besides the variables it names
IngestFrame ==
    UNCHANGED <<cfg, now, runs, apify_actor_runs, calls, resume_arg, result, run_id, iteration,
                attempted_keys, queue, stagnation, current_results_limit, phase,
                actor_source, discoveries, finish_calls, unfinished_at_call, failed_key,
                fallback_calls, unit>>

\* lines 306-312: no URL, or a key already seen
IngestSkip ==
    /\ Ingesting
    /\ ItemPost = NoPost \/ ItemKey \in seen_keys
    /\ items' = Tail(items)
    /\ pc' = pc
    /\ IngestFrame
    /\ UNCHANGED <<raw_posts, llm_decisions, eligible_total, raw_total, decision_total,
                   seen_keys, hashtag_counts, user_counts, new_eligible,
                   classify_calls, last>>

IsNewItem == Ingesting /\ ItemPost # NoPost /\ ItemKey \notin seen_keys

\* lines 314-315: the raw-item cap ends the batch
IngestRawCapBreak ==
    /\ IsNewItem
    /\ raw_total >= cfg.max_raw_items
    /\ items' = <<>>
    /\ pc' = pc
    /\ IngestFrame
    /\ UNCHANGED <<raw_posts, llm_decisions, eligible_total, raw_total, decision_total,
                   seen_keys, hashtag_counts, user_counts, new_eligible,
                   classify_calls, last>>

\* lines 317-324
StoreRawItem ==
    /\ raw_posts' = upsert_raw_post(raw_posts, ItemKey, ItemPost.url, Head(items),
                                    actor_source, now)
    /\ seen_keys' = seen_keys \cup {ItemKey}
    /\ raw_total' = raw_total + 1

\* an item going on to be stored whatever the number of raw items
CanStore_uncapped == IsNewItem

CanStore == IsNewItem /\ raw_total < cfg.max_raw_items

\* lines 317-328: stored, rejected by the prechecks
IngestPrecheckRejected ==
    /\ CanStore
    /\ ~run_prechecks(ItemPost, cfg.filters)
    /\ StoreRawItem
    /\ items' = Tail(items)
    /\ pc' = pc
    /\ IngestFrame
    /\ UNCHANGED <<llm_decisions, eligible_total, decision_total, hashtag_counts,
                   user_counts, new_eligible, classify_calls, last>>

\* the batch going on to its next item although the pool target is met
RestAfterLabel_no_break(eligible1) == Tail(items)

\* lines 354-355: the items still to ingest once a decision is recorded
RestAfterLabel(eligible1) == IF eligible1 >= cfg.pool_n THEN <<>> ELSE Tail(items)

\* lines 317-355: stored, labelled with d, guarded, the decision recorded
IngestLabelled ==
    /\ CanStore
    /\ run_prechecks(ItemPost, cfg.filters)
    /\ StoreRawItem
    /\ \E d \in Decisions :
         LET guarded == apply_dominance_guard(d, ItemPost.owner_username, ItemPost.owner_id,
                                              cfg.max_posts_per_user, user_counts)
             decision == guarded.decision
             rec == record_llm_decision(llm_decisions, raw_posts', ItemKey, decision, now)
             eligible1 == eligible_total + (IF decision.eligible THEN 1 ELSE 0)
         IN  /\ classify_calls' = Inc(classify_calls, ItemKey)
             /\ user_counts' = guarded.user_counts
             /\ llm_decisions' = rec.rows
             /\ last' = [post_key |-> ItemKey, returned |-> d, stored |-> decision,
                         user_key |-> user_key_of(ItemPost.owner_username, ItemPost.owner_id),
                         count_before |-> Count(user_counts,
                              user_key_of(ItemPost.owner_username, ItemPost.owner_id)),
                         counts_before |-> user_counts,
                         counts_after |-> guarded.user_counts,
                         rest |-> Tail(items)]
             /\ IF rec.raised
                THEN /\ pc' = "aborted"
                     /\ UNCHANGED <<eligible_total, decision_total, new_eligible,
                                    hashtag_counts, items>>
                ELSE /\ pc' = pc
                     /\ decision_total' = decision_total + 1
                     /\ eligible_total' = eligible1
                     /\ new_eligible' = new_eligible + (IF decision.eligible THEN 1 ELSE 0)
                     /\ hashtag_counts' = IF decision.eligible
                                          THEN IncAll(hashtag_counts, ItemPost.hashtags)
                                          ELSE hashtag_counts
                     /\ items' = RestAfterLabel(eligible1)
    /\ IngestFrame

\* a labeling failure recorded as a decision row before it propagates
IngestLabelRaises_writes_row ==
    /\ CanStore
    /\ run_prechecks(ItemPost, cfg.filters)
    /\ raw_posts' = upsert_raw_post(raw_posts, ItemKey, ItemPost.url, Head(items),
                                    actor_source, now)
    /\ llm_decisions' = record_llm_decision(llm_decisions, raw_posts', ItemKey,
                                            NoDecision, now).rows
    /\ classify_calls' = Inc(classify_calls, ItemKey)
    /\ failed_key' = ItemKey
    /\ Abort
    /\ UNCHANGED <<now, runs, apify_actor_runs, last, fallback_calls>>

\* line 330: classify_with_metadata raises after the raw row was stored
IngestLabelRaises ==
    /\ CanStore
    /\ run_prechecks(ItemPost, cfg.filters)
    /\ raw_posts' = upsert_raw_post(raw_posts, ItemKey, ItemPost.url, Head(items),
                                    actor_source, now)
    /\ classify_calls' = Inc(classify_calls, ItemKey)
    /\ failed_key' = ItemKey
    /\ Abort
    /\ UNCHANGED <<now, runs, apify_actor_runs, llm_decisions, last, fallback_calls>>

\* ------------------------------------------------------------------------
\* run_feedback_loop lines 413-487: expansion, stagnation, fallback
\* ------------------------------------------------------------------------

\* str.casefold of a URL string
casefold_url(url) ==
    [scheme |-> Lower(url.scheme), host |-> casefold(url.host),
     segs |-> [i \in 1..Len(url.segs) |-> casefold(url.segs[i])],
     slash |-> url.slash, query |-> Lower(url.query), frag |-> Lower(url.frag)]

\* _extract_hashtag_from_url: the tag, or <<>> for None
RECURSIVE hashtag_from_segs(_, _)
hashtag_from_segs(segs, i) ==
    IF i > Len(segs) - 2 THEN <<>>
    ELSE IF segs[i] = <<"explore">> /\ segs[i + 1] = <<"tags">> THEN strip(segs[i + 2])
    ELSE hashtag_from_segs(segs, i + 1)

extract_hashtag_from_url(url) == IF url = NoUrl THEN <<>> ELSE hashtag_from_segs(url.segs, 1)

\* the loops of lines 103-112 and 456-461: first occurrence of every URL,
\* compared case-folded, empty ones dropped
RECURSIVE dedupe_urls_from(_, _)
dedupe_urls_from(urls, seen) ==
    IF Len(urls) = 0 THEN <<>>
    ELSE LET key == casefold_url(Head(urls))
         IN  IF Head(urls) = NoUrl \/ key \in seen
             THEN dedupe_urls_from(Tail(urls), seen)
             ELSE <<Head(urls)>> \o dedupe_urls_from(Tail(urls), seen \cup {key})

\* _extract_hashtag_search_urls on items that carry their URL under "url"
extract_hashtag_search_urls(search_items) ==
    dedupe_urls_from([i \in 1..Len(search_items) |-> search_items[i].url], {})

RECURSIVE Concat(_)
Concat(lists) == IF Len(lists) = 0 THEN <<>> ELSE Head(lists) \o Concat(Tail(lists))

RECURSIVE SelectSeqBy(_, _)
SelectSeqBy(s, keep) ==
    IF Len(s) = 0 THEN <<>>
    ELSE (IF Head(s) \in keep THEN <<Head(s)>> ELSE <<>>) \o SelectSeqBy(Tail(s), keep)

blocklist_keys == {casefold(normalize_term(t)) : t \in Range(cfg.blocklist_terms)}

\* query expansion that enqueues nothing
ExpandedQueue_unchanged == queue

\* lines 413-422: the queue after query expansion
ExpandedQueue ==
    IF cfg.expansion_enabled
    THEN TermQueue_add_many(queue,
             selected_expansion_terms(hashtag_counts, cfg.min_hashtag_freq_in_eligible,
                                      cfg.max_new_terms_per_iter, blocklist_keys,
                                      attempted_keys, TermQueue_present_keys(queue))).q
    ELSE queue

\* line 424
Pushed == StagnationTracker_push(stagnation, new_eligible, cfg.stagnation_window,
                                 cfg.stagnation_min_new_eligible)

\* the fallback condition without the test of the pool target
FallbackDue_ignores_pool == Pushed.ret

\* line 426
FallbackDue == Pushed.ret /\ eligible_total < cfg.pool_n

\* line 427
WidenedLimit ==
    LET doubled == current_results_limit * 2
        floor10 == IF doubled > 10 THEN doubled ELSE 10
    IN  IF floor10 < 500 THEN floor10 ELSE 500

\* lines 429-441
SearchSeeds ==
    LET fromTags == selected_expansion_terms(hashtag_counts, 1, 3, blocklist_keys, {}, {})
        seeds == SelectSeqBy(cfg.seed_terms,
                             {t \in Range(cfg.seed_terms) : Len(normalize_term(t)) > 0})
    IN  FirstN(IF Len(fromTags) > 0 THEN fromTags ELSE seeds, 3)

\* lines 440-461: the URLs found by the searches, without duplicates
DedupedUrls(found) ==
    dedupe_urls_from(
        Concat([i \in 1..Len(found) |-> extract_hashtag_search_urls(found[i])]), {})

\* lines 463-469
DiscoveredTerms(found) ==
    LET urls == DedupedUrls(found)
        tags == [i \in 1..Len(urls) |-> extract_hashtag_from_url(urls[i])]
    IN  SelectSeqBy(tags, {t \in Range(tags) :
                             /\ Len(t) > 0
                             /\ casefold(t) \notin blocklist_keys
                             /\ casefold(t) \notin attempted_keys})

\* lines 473-474
ScrapeUrls(found) ==
    LET urls == DedupedUrls(found)
    IN  FirstN(SelectSeqBy(urls, {u \in Range(urls) : Len(extract_hashtag_from_url(u)) > 0}),
               10)

\* n calls of _record_actor_run for the fallback actor
RECURSIVE RecordFallbackRuns(_, _)
RecordFallbackRuns(ars, n) ==
    IF n = 0 THEN ars
    ELSE LET prev == RecordFallbackRuns(ars, n - 1)
         IN  record_apify_actor_run(prev, run_id, "fallback", Len(prev) + 1)

AtEndOfPrimary == pc = "ingest" /\ Len(items) = 0 /\ phase = "primary"

EndFrame ==
    UNCHANGED <<cfg, now, runs, raw_posts, llm_decisions, calls, resume_arg, result, run_id,
                eligible_total, raw_total, decision_total, seen_keys, hashtag_counts,
                user_counts, attempted_keys, history, unit>>

\* lines 413-426, 486: no stagnation (or the pool is full): next iteration
EndIteration ==
    /\ AtEndOfPrimary
    /\ ~FallbackDue
    /\ queue' = ExpandedQueue
    /\ stagnation' = Pushed.st
    /\ iteration' = iteration + 1
    /\ pc' = "iter"
    /\ items' = <<>>
    /\ phase' = "none"
    /\ actor_source' = ""
    /\ new_eligible' = 0
    /\ EndFrame
    /\ UNCHANGED <<apify_actor_runs, current_results_limit, fallback_calls>>

\* lines 426-484: stagnation; the searches return found and, when a tag URL
\* was found, the scrape returns scraped
Fallback ==
    /\ AtEndOfPrimary
    /\ FallbackDue
    /\ stagnation' = Pushed.st
    /\ current_results_limit' = WidenedLimit
    /\ \E found \in [1..Len(SearchSeeds) -> SearchLists] :
         /\ queue' = TermQueue_add_many(ExpandedQueue, DiscoveredTerms(found)).q
         /\ IF Len(ScrapeUrls(found)) > 0
            THEN \E scraped \in ItemLists :
                   /\ apify_actor_runs' =
                          RecordFallbackRuns(apify_actor_runs, Len(SearchSeeds) + 1)
                   /\ fallback_calls' = fallback_calls + Len(SearchSeeds) + 1
                   /\ items' = scraped
                   /\ phase' = "fallback"
                   /\ actor_source' = "fallback"
                   /\ pc' = "ingest"
                   /\ UNCHANGED iteration
            ELSE /\ apify_actor_runs' = RecordFallbackRuns(apify_actor_runs, Len(SearchSeeds))
                 /\ fallback_calls' = fallback_calls + Len(SearchSeeds)
                 /\ items' = <<>>
                 /\ phase' = "none"
                 /\ actor_source' = ""
                 /\ iteration' = iteration + 1
                 /\ pc' = "iter"
    /\ new_eligible' = 0
    /\ EndFrame

\* line 442 or 476: a fallback call raises after done of the searches returned
FallbackRaises ==
    /\ AtEndOfPrimary
    /\ FallbackDue
    /\ \E done \in 0..Len(SearchSeeds) :
         /\ done = Len(SearchSeeds) =>
                \E found \in [1..Len(SearchSeeds) -> SearchLists] : Len(ScrapeUrls(found)) > 0
         /\ apify_actor_runs' = RecordFallbackRuns(apify_actor_runs, done)
         /\ fallback_calls' = fallback_calls + done + 1
    /\ Abort
    /\ UNCHANGED <<now, runs, raw_posts, llm_decisions, classify_calls, last, failed_key>>

\* line 484 returned: the fallback batch is ingested, lines 486-487
EndFallback ==
    /\ pc = "ingest" /\ Len(items) = 0 /\ phase = "fallback"
    /\ iteration' = iteration + 1
    /\ pc' = "iter"
    /\ phase' = "none"
    /\ actor_source' = ""
    /\ new_eligible' = 0
    /\ EndFrame
    /\ UNCHANGED <<apify_actor_runs, queue, stagnation, current_results_limit, items,
                   fallback_calls>>

Next ==
    \/ CallWithResume
    \/ StartRun
    \/ ReturnCompletedPool
    \/ ReturnMaxRawItems
    \/ ReturnEmptyQueue
    \/ ReturnMaxIterations
    \/ PrimaryDiscovery
    \/ PrimaryDiscoveryRaises
    \/ IngestSkip
    \/ IngestRawCapBreak
    \/ IngestPrecheckRejected
    \/ IngestLabelled
    \/ IngestLabelRaises
    \/ EndIteration
    \/ Fallback
    \/ FallbackRaises
    \/ EndFallback

Spec == Init /\ [][Next]_vars

\* the same program deployed with one of EagerConfigs
EagerInit == MainInitIn(EagerConfigs) /\ UnitIdle

EagerSpec == EagerInit /\ [][Next]_vars

\* a configured apify.results_limit_per_query (any positive integer) above
\* the largest limit a stagnation sets
StartLimits == {600}

\* the deployments of EagerConfigs with these starting limits
WideConfigs ==
    {[c EXCEPT !.results_limit_per_query = l] : c \in EagerConfigs, l \in StartLimits}

WideInit == MainInitIn(WideConfigs) /\ UnitIdle

WideSpec == WideInit /\ [][Next]_vars

\* ------------------------------------------------------------------------
\* A TermQueue on its own: any sequence of add and pop_batch calls
\* ------------------------------------------------------------------------

MaxEnqueued == 4

MaxPop == 3

QueueTerms == {<<"a">>, <<"A">>, <<"#", "b">>, <<"B">>, <<"c">>, <<"#", " ">>}

MainIdle == MainInitIn({CHOOSE c \in Configs : TRUE})

main == <<cfg, now, store, pc, calls, resume_arg, result, locals, history, fallback_calls>>

QueueInit ==
    /\ MainIdle
    /\ AuxIdle
    /\ tq = TermQueue_init(<<>>)
    /\ tq_last = NoQueueCall
    /\ tracker = NoTracker
    /\ tracker_last = NoPushes
    /\ exp_call = NoExpansionCall

\* tq.add(t)
QueueAdd ==
    /\ Len(tq_last.log) < MaxEnqueued
    /\ \E t \in QueueTerms :
         LET r == TermQueue_add(tq, t)
         IN  /\ tq' = r.q
             /\ tq_last' = [op |-> "add", arg |-> t, before |-> tq, ret |-> r.ret,
                            out |-> <<>>, raised |-> FALSE,
                            log |-> IF r.ret THEN Append(tq_last.log, normalize_term(t))
                                    ELSE tq_last.log,
                            popped |-> tq_last.popped]
    /\ UNCHANGED <<main, aux, aux2, tracker, tracker_last, exp_call>>

\* tq.pop_batch(n)
QueuePop ==
    /\ \E n \in -1..MaxPop :
         LET r == TermQueue_pop_batch(tq, n)
         IN  /\ tq' = r.q
             /\ tq_last' = [op |-> "pop", arg |-> n, before |-> tq, ret |-> FALSE,
                            out |-> r.out, raised |-> r.raised,
                            log |-> tq_last.log,
                            popped |-> tq_last.popped + Len(r.out)]
    /\ UNCHANGED <<main, aux, aux2, tracker, tracker_last, exp_call>>

\* tq.add_many(<<t, u>>); ret is whether any term was enqueued
QueueAddMany ==
    /\ Len(tq_last.log) + 2 <= MaxEnqueued
    /\ \E t \in QueueTerms, u \in QueueTerms :
         LET r == TermQueue_add_many(tq, <<t, u>>)
         IN  /\ tq' = r.q
             /\ tq_last' = [op |-> "add_many", arg |-> <<t, u>>, before |-> tq,
                            ret |-> r.ret > 0, out |-> <<>>, raised |-> FALSE,
                            log |-> tq_last.log \o
                                    SubSeq(r.q.queue, Len(tq.queue) + 1, Len(r.q.queue)),
                            popped |-> tq_last.popped]
    /\ UNCHANGED <<main, aux, aux2, tracker, tracker_last, exp_call>>

QueueNext ==
    \/ QueueAdd
    \/ QueueAddMany
    \/ QueuePop

QueueSpec == QueueInit /\ [][QueueNext]_vars

\* ------------------------------------------------------------------------
\* A StagnationTracker on its own: any construction, any sequence of pushes
\* ------------------------------------------------------------------------

MaxWindow == 3

MaxMinNew == 5

MaxPushValue == 2

MaxPushes == 4

\* StagnationTracker(window_size, min_new_total): __post_init__ accepts
\* window_size > 0 and min_new_total >= 0
TrackerInit ==
    /\ MainIdle
    /\ AuxIdle
    /\ tq = EmptyQueue
    /\ tq_last = NoQueueCall
    /\ \E w \in 1..MaxWindow, m \in 0..MaxMinNew :
         tracker = [window_size |-> w, min_new_total |-> m, values |-> <<>>, seen |-> 0]
    /\ tracker_last = NoPushes
    /\ exp_call = NoExpansionCall

\* tracker.push(v)
TrackerPush ==
    /\ Len(tracker_last.pushed) < MaxPushes
    /\ \E v \in 0..MaxPushValue :
         LET r == StagnationTracker_push([values |-> tracker.values, seen |-> tracker.seen],
                                         v, tracker.window_size, tracker.min_new_total)
         IN  /\ tracker' = [tracker EXCEPT !.values = r.st.values, !.seen = r.st.seen]
             /\ tracker_last' = [pushed |-> Append(tracker_last.pushed, v),
                                 rets   |-> Append(tracker_last.rets, r.ret)]
    /\ UNCHANGED <<main, aux, aux2, tq, tq_last, exp_call>>

TrackerNext == TrackerPush

TrackerSpec == TrackerInit /\ [][TrackerNext]_vars

\* ------------------------------------------------------------------------
\* _selected_expansion_terms on its own: one call on any arguments
\* ------------------------------------------------------------------------

MaxFreq == 2

MaxTerms == 2

ExpansionTags == {<<"a">>, <<"A">>, <<"b">>, <<"c">>}

\* Counter[str] values: every tag counted has a frequency of at least 1
TagCounters == UNION {[T -> 1..MaxFreq] : T \in SUBSET ExpansionTags}

ExpansionInit ==
    /\ MainIdle
    /\ AuxIdle
    /\ tq = EmptyQueue
    /\ tq_last = NoQueueCall
    /\ tracker = NoTracker
    /\ tracker_last = NoPushes
    /\ \E counts \in TagCounters, min_freq \in 1..MaxFreq, max_terms \in 0..MaxTerms,
          blocked \in {{}, {<<"c">>}}, attempted \in {{}, {<<"a">>}, {<<"b">>}},
          present \in {{}, {<<"a">>}} :
         exp_call = [hashtag_counts |-> counts, min_freq |-> min_freq,
                     max_terms |-> max_terms, blocklist_keys |-> blocked,
                     attempted_keys |-> attempted, present_keys |-> present,
                     done |-> FALSE, out |-> <<>>]

\* the call returns
ExpansionSelect ==
    /\ ~exp_call.done
    /\ exp_call' = [exp_call EXCEPT
                       !.done = TRUE,
                       !.out = selected_expansion_terms(
                                   exp_call.hashtag_counts, exp_call.min_freq,
                                   exp_call.max_terms, exp_call.blocklist_keys,
                                   exp_call.attempted_keys, exp_call.present_keys)]
    /\ UNCHANGED <<main, aux, aux2, tq, tq_last, tracker, tracker_last>>

ExpansionNext == ExpansionSelect

ExpansionSpec == ExpansionInit /\ [][ExpansionNext]_vars

\* ------------------------------------------------------------------------
\* ensure_final_sample, a call per connection, statement by statement.  What
\* a transaction wrote is seen by the other connection when it commits, and
\* one connection writes at a time.
\* ------------------------------------------------------------------------

MaxSampleCalls == 3

MaxSeed == 1

MaxFinalN == 2

SampleRuns == {"run_a"}

SampleKeys == {<<"1">>, <<"2">>, <<"3">>}

\* ordered pools: a pool, the same keys in another order, the pool grown
SamplePools ==
    { <<<<"1">>, <<"2">>>>, <<<<"2">>, <<"1">>>>, <<<<"1">>, <<"2">>, <<"3">>>> }

RECURSIVE CallsMade(_)
CallsMade(cs) ==
    IF cs = {} THEN 0
    ELSE LET c == CHOOSE x \in cs : TRUE IN fs[c].n + CallsMade(cs \ {c})

\* the tables final_sample.py reads and writes: a row per run_id, and a row
\* per (run_id, post_key)
FinalSampleTables ==
    << Table("final_sample_runs", {"run_id", "sampling_seed", "pool_n", "final_n",
                                   "pool_keys_sha256", "created_at"}),
       Table("final_samples", {"run_id", "post_key"}) >>

\* a file that open() initialized and that has the final-sample tables
SampleDb ==
    LET d == apply_migrations(EmptyDb).db
    IN  [d EXCEPT !.schema = executescript(d.schema, FinalSampleTables).schema]

Finished(call) == call.pc \in {"idle", "returned", "raised"}

\* the stored sample set aside when persistence is requested
returns_existing_unless_persist(existing, persist) == existing # NoMeta /\ ~persist

\* lines 144-147: a persisted sample is always used
returns_existing(existing, persist) == existing # NoMeta

\* lines 140-161: the call up to its first write
ensure_final_sample_begin(d, n, rid, pool_keys, sampling_seed, pool_n, final_n, persist) ==
    LET loaded == load_final_sample_meta(d, rid)
        picked == pick_final_keys(pool_keys, final_n, sampling_seed)
        call == [NoCall EXCEPT !.run_id = rid, !.pool_keys = pool_keys,
                               !.sampling_seed = sampling_seed, !.pool_n = pool_n,
                               !.final_n = final_n, !.persist = persist, !.n = n]
    IN  IF rid = "" \/ loaded.raised THEN [call EXCEPT !.pc = "raised"]
        ELSE IF returns_existing(loaded.meta, persist)
        THEN [call EXCEPT !.pc = "load_keys", !.existing = loaded.meta]
        ELSE IF ~persist
        THEN [call EXCEPT !.pc = "returned", !.existing = loaded.meta,
                          !.keys = picked.keys, !.ret_keys = picked.keys]
        ELSE [call EXCEPT !.pc = "begin", !.existing = loaded.meta, !.keys = picked.keys,
                          !.meta = [run_id |-> rid, sampling_seed |-> sampling_seed,
                                    pool_n |-> pool_n, final_n |-> final_n,
                                    pool_keys_sha256 |-> pool_keys_sha256(pool_keys)]]

SampleFrame == UNCHANGED <<main, aux2, tq, tq_last, tracker, tracker_last, exp_call>>

\* ensure_final_sample is called on connection c
EnsureCall(c) ==
    /\ Finished(fs[c])
    /\ CallsMade(Connections) < MaxSampleCalls
    /\ \E rid \in SampleRuns, pool_keys \in SamplePools, sampling_seed \in 0..MaxSeed,
          final_n \in 1..MaxFinalN, persist \in BOOLEAN :
         fs' = [fs EXCEPT ![c] = ensure_final_sample_begin(db, fs[c].n + 1, rid, pool_keys,
                                     sampling_seed, PoolN, final_n, persist)]
    /\ UNCHANGED <<db, conn, op_last, pick, fs_hist>>
    /\ SampleFrame

\* lines 146-147
EnsureLoadKeys(c) ==
    /\ fs[c].pc = "load_keys"
    /\ fs' = [fs EXCEPT ![c].pc = "returned",
                        ![c].ret_keys = load_final_sample_keys(db, fs[c].run_id),
                        ![c].ret_meta = fs[c].existing]
    /\ UNCHANGED <<db, conn, op_last, pick, fs_hist>>
    /\ SampleFrame

Writing(call) == call.pc \in {"insert_keys", "commit"}

\* lines 164-179: the transaction begins, INSERT OR IGNORE INTO final_sample_runs
EnsureInsertMeta(c) ==
    /\ fs[c].pc = "begin"
    /\ \A o \in Connections : ~Writing(fs[o])
    /\ fs' = [fs EXCEPT ![c].pc = "insert_keys",
                        ![c].wrote_meta = fs[c].run_id \notin DOMAIN db.final_sample_runs]
    /\ UNCHANGED <<db, conn, op_last, pick, fs_hist>>
    /\ SampleFrame

\* lines 164, 188-189: the other connection is writing for longer than the
\* busy timeout; the OperationalError is raised as StorageError
EnsureBusy(c) ==
    /\ fs[c].pc = "begin"
    /\ \E o \in Connections : Writing(fs[o])
    /\ fs' = [fs EXCEPT ![c].pc = "raised"]
    /\ UNCHANGED <<db, conn, op_last, pick, fs_hist>>
    /\ SampleFrame

\* lines 181-187: INSERT OR IGNORE INTO final_samples, a row per key
EnsureInsertKeys(c) ==
    /\ fs[c].pc = "insert_keys"
    /\ fs' = [fs EXCEPT ![c].pc = "commit",
                        ![c].pending = {<<fs[c].run_id, k>> : k \in fs[c].keys}
                                           \ db.final_samples]
    /\ UNCHANGED <<db, conn, op_last, pick, fs_hist>>
    /\ SampleFrame

\* line 164: the with block ends and the transaction commits
committed(d, call) ==
    [d EXCEPT !.final_sample_runs =
                  IF call.wrote_meta
                  THEN [r \in DOMAIN @ \cup {call.run_id} |->
                           IF r = call.run_id THEN call.meta ELSE @[r]]
                  ELSE @,
              !.final_samples = @ \cup call.pending]

EnsureCommit(c) ==
    /\ fs[c].pc = "commit"
    /\ db' = committed(db, fs[c])
    /\ fs' = [fs EXCEPT ![c].pc = "read_back"]
    /\ fs_hist' = IF fs[c].wrote_meta
                  THEN [r \in DOMAIN fs_hist \cup {fs[c].run_id} |->
                           IF r = fs[c].run_id THEN fs[c].keys ELSE fs_hist[r]]
                  ELSE fs_hist
    /\ UNCHANGED <<conn, op_last, pick>>
    /\ SampleFrame

\* lines 195-200
meta_mismatch(stored, meta) ==
    \/ stored.sampling_seed # meta.sampling_seed
    \/ stored.pool_n # meta.pool_n
    \/ stored.final_n # meta.final_n
    \/ stored.pool_keys_sha256 # meta.pool_keys_sha256

\* lines 191-203: the read-back verification
EnsureReadBack(c) ==
    /\ fs[c].pc = "read_back"
    /\ LET stored == load_final_sample_meta(db, fs[c].run_id).meta
       IN  fs' = IF stored = NoMeta \/ meta_mismatch(stored, fs[c].meta)
                 THEN [fs EXCEPT ![c].pc = "raised"]
                 ELSE [fs EXCEPT ![c].pc = "returned", ![c].ret_keys = fs[c].keys,
                                 ![c].ret_meta = stored]
    /\ UNCHANGED <<db, conn, op_last, pick, fs_hist>>
    /\ SampleFrame

SampleInit ==
    /\ MainIdle
    /\ tq = EmptyQueue
    /\ tq_last = NoQueueCall
    /\ tracker = NoTracker
    /\ tracker_last = NoPushes
    /\ exp_call = NoExpansionCall
    /\ db = SampleDb
    /\ conn = Closed
    /\ op_last = NoOp
    /\ pick = NoPick
    /\ fs = [c \in Connections |-> NoCall]
    /\ fs_hist = [r \in {} |-> {}]
    /\ keyed = NoKeyed
    /\ retry = NoRetry

SampleNext ==
    \/ \E c \in Connections : EnsureCall(c)
    \/ \E c \in Connections : EnsureLoadKeys(c)
    \/ \E c \in Connections : EnsureInsertMeta(c)
    \/ \E c \in Connections : EnsureBusy(c)
    \/ \E c \in Connections : EnsureInsertKeys(c)
    \/ \E c \in Connections : EnsureCommit(c)
    \/ \E c \in Connections : EnsureReadBack(c)

SampleSpec == SampleInit /\ [][SampleNext]_vars

\* ------------------------------------------------------------------------
\* pick_final_keys on its own
\* ------------------------------------------------------------------------

MaxPoolLen == 3

MaxPickN == 4

PickPools == UNION {[1..n -> SampleKeys] : n \in 0..MaxPoolLen}

PickInit ==
    /\ MainIdle
    /\ tq = EmptyQueue
    /\ tq_last = NoQueueCall
    /\ tracker = NoTracker
    /\ tracker_last = NoPushes
    /\ exp_call = NoExpansionCall
    /\ db = EmptyDb
    /\ conn = Closed
    /\ op_last = NoOp
    /\ pick \in [pool_keys : PickPools, final_n : -1..MaxPickN, seed : 0..MaxSeed,
                 done : {FALSE}, keys : {{}}, raised : {FALSE}]
    /\ fs = [c \in Connections |-> NoCall]
    /\ fs_hist = [r \in {} |-> {}]
    /\ keyed = NoKeyed
    /\ retry = NoRetry

Pick ==
    /\ ~pick.done
    /\ LET r == pick_final_keys(pick.pool_keys, pick.final_n, pick.seed)
       IN  pick' = [pick EXCEPT !.done = TRUE, !.keys = r.keys, !.raised = r.raised]
    /\ UNCHANGED <<main, aux2, tq, tq_last, tracker, tracker_last, exp_call,
                   db, conn, op_last, fs, fs_hist>>

PickNext == Pick

PickSpec == PickInit /\ [][PickNext]_vars

\* ------------------------------------------------------------------------
\* A SQLiteStateStore on its own: open, close and any sequence of calls
\* ------------------------------------------------------------------------

MaxOpens == 2

MaxStoreCalls == 3

MaxStamp == 2

StoreKeys == {<<"1">>, <<"1", " ">>, <<"2">>, <<" ">>}

StoreUrls == {<<"u">>, <<"v">>}

StoreSources == {"", " ", "apify", "fallback"}

\* a file in which another program made a table raw_posts of its own
ForeignDb == [EmptyDb EXCEPT !.schema = [n \in {"raw_posts"} |-> {"post_key"}]]

\* initialize_sqlite
initialize_sqlite(d) ==
    LET r == apply_migrations(d)
    IN  [db |-> r.db, conn |-> configure_connection, raised |-> r.raised]

StoreInit ==
    /\ MainIdle
    /\ tq = EmptyQueue
    /\ tq_last = NoQueueCall
    /\ tracker = NoTracker
    /\ tracker_last = NoPushes
    /\ exp_call = NoExpansionCall
    /\ db \in {EmptyDb, ForeignDb}
    /\ conn = Closed
    /\ op_last = NoOp
    /\ pick = NoPick
    /\ fs = [c \in Connections |-> NoCall]
    /\ fs_hist = [r \in {} |-> {}]
    /\ keyed = NoKeyed
    /\ retry = NoRetry

StoreFrame ==
    UNCHANGED <<main, aux2, tq, tq_last, tracker, tracker_last, exp_call, pick, fs_hist>>

\* the record of a call, the logs carried over
Called(op) == [NoOp EXCEPT !.op = op, !.before = db, !.upserted = op_last.upserted,
                           !.log = op_last.log, !.opens = op_last.opens, !.n = op_last.n + 1]

\* SQLiteStateStore.open
StoreOpen ==
    /\ ~conn.open
    /\ op_last.opens < MaxOpens
    /\ LET r == initialize_sqlite(db)
       IN  /\ db' = r.db
           /\ conn' = IF r.raised THEN Closed ELSE r.conn
           /\ op_last' = [Called("open") EXCEPT !.opens = op_last.opens + 1, !.n = op_last.n,
                                                !.raised = IF r.raised THEN "StorageError"
                                                           ELSE "none"]
    /\ UNCHANGED fs
    /\ StoreFrame

\* SQLiteStateStore.close
StoreClose ==
    /\ conn.open
    /\ conn' = Closed
    /\ op_last' = [Called("close") EXCEPT !.n = op_last.n]
    /\ UNCHANGED <<db, fs>>
    /\ StoreFrame

\* SQLiteStateStore.upsert_raw_post
StoreUpsert ==
    /\ conn.open
    /\ op_last.n < MaxStoreCalls
    /\ \E post_key \in StoreKeys, url \in StoreUrls, raw_item \in {"p1", "p2"},
          source \in StoreSources, fetched_at \in 1..MaxStamp :
         LET key == strip(post_key)
             u == strip(url)
             src == none_if_blank(source)
             call == [Called("upsert") EXCEPT !.key = key, !.url = u, !.raw_item = raw_item,
                                              !.actor_source = src, !.ts = fetched_at]
         IN  IF key = <<>> \/ u = <<>>
             THEN /\ op_last' = [call EXCEPT !.raised = "ValueError"]
                  /\ db' = db
             ELSE /\ op_last' = [call EXCEPT !.upserted = @ \cup {key}]
                  /\ db' = [db EXCEPT !.raw_posts =
                                upsert_raw_post(@, key, u, raw_item, src, fetched_at)]
    /\ UNCHANGED <<conn, fs>>
    /\ StoreFrame

\* SQLiteStateStore.record_llm_decision
StoreRecord ==
    /\ conn.open
    /\ op_last.n < MaxStoreCalls
    /\ \E post_key \in StoreKeys, decision \in Decisions, created_at \in 1..MaxStamp :
         LET key == strip(post_key)
             call == [Called("record") EXCEPT !.key = key, !.eligible = decision.eligible,
                                              !.ts = created_at]
             r == IF conn.foreign_keys
                  THEN record_llm_decision(db.llm_decisions, db.raw_posts, key, decision,
                                           created_at)
                  ELSE insert_llm_decision(db.llm_decisions, key, decision, created_at)
         IN  IF key = <<>>
             THEN /\ op_last' = [call EXCEPT !.raised = "ValueError"]
                  /\ db' = db
             ELSE IF r.raised
             THEN /\ op_last' = [call EXCEPT !.raised = "StorageError"]
                  /\ db' = db
             ELSE /\ op_last' = [call EXCEPT !.log = Append(@, r.rows[Len(r.rows)])]
                  /\ db' = [db EXCEPT !.llm_decisions = r.rows]
    /\ UNCHANGED <<conn, fs>>
    /\ StoreFrame

ExportRun == "run_test"

\* export_corpus_workbook, lines 253-279, for targets that TargetsConfig accepts
StoreExport ==
    /\ conn.open
    /\ op_last.n < MaxStoreCalls
    /\ \E pool_n \in 1..PoolN, final_n \in 1..PoolN, sampling_seed \in 0..MaxSeed :
         /\ final_n <= pool_n
         /\ LET pool_keys == fetch_pool_keys(db.raw_posts, db.llm_decisions, pool_n)
                loaded == load_final_sample_meta(db, ExportRun)
                call == [Called("export") EXCEPT !.pool = pool_keys, !.pool_n = pool_n,
                                                 !.final_n = final_n]
            IN  IF loaded.raised
                THEN /\ op_last' = [call EXCEPT !.raised = "OperationalError"]
                     /\ fs' = fs
                ELSE IF loaded.meta # NoMeta
                THEN /\ op_last' = call
                     /\ fs' = fs
                ELSE /\ op_last' = call
                     /\ fs' = [fs EXCEPT ![1] =
                                  ensure_final_sample_begin(db, fs[1].n + 1, ExportRun,
                                      pool_keys, sampling_seed, pool_n, final_n,
                                      Len(pool_keys) >= pool_n)]
    /\ UNCHANGED <<db, conn>>
    /\ StoreFrame

StoreNext ==
    \/ StoreOpen
    \/ StoreClose
    \/ StoreUpsert
    \/ StoreRecord
    \/ StoreExport

StoreSpec == StoreInit /\ [][StoreNext]_vars

\* ------------------------------------------------------------------------
\* dedupe.py: dedupe_key on two discovered items
\* ------------------------------------------------------------------------

\* what may follow the path: nothing, a query, a fragment
KeyTails == {<<"", "">>, <<"utm=a", "">>, <<"", "f">>}

\* URL strings; those with scheme "" are strings like "x.com/p/1/?utm=a"
KeyUrls ==
    {[scheme |-> s, host |-> h, segs |-> <<<<"p">>, <<n>>>>, slash |-> sl,
      query |-> t[1], frag |-> t[2]] :
        s \in {"https", "HTTPS", ""}, h \in {<<"x", "com">>, <<"www", "X", "com">>},
        n \in {"1", "2"}, sl \in BOOLEAN, t \in KeyTails}

\* items as discovery calls return them: with or without id and shortCode
KeyItems ==
    {RawItem(u, id, code, <<>>, <<>>, 80, <<>>) :
        u \in KeyUrls, id \in {<<>>, <<"1">>}, code \in {<<>>, <<"c">>}}

KeyInit ==
    /\ MainIdle
    /\ tq = EmptyQueue
    /\ tq_last = NoQueueCall
    /\ tracker = NoTracker
    /\ tracker_last = NoPushes
    /\ exp_call = NoExpansionCall
    /\ db = EmptyDb
    /\ conn = Closed
    /\ op_last = NoOp
    /\ pick = NoPick
    /\ fs = [c \in Connections |-> NoCall]
    /\ fs_hist = [r \in {} |-> {}]
    /\ retry = NoRetry
    /\ keyed \in [a : KeyItems, b : KeyItems, done : {FALSE}, key_a : {NoKey},
                  key_b : {NoKey}]

\* loop.py 306-310 on each of the two items
DedupeKeys ==
    /\ ~keyed.done
    /\ keyed' = [keyed EXCEPT
                   !.done = TRUE,
                   !.key_a = dedupe_key(normalized_post_from_apify_item(keyed.a)),
                   !.key_b = dedupe_key(normalized_post_from_apify_item(keyed.b))]
    /\ UNCHANGED <<main, aux, retry, tq, tq_last, tracker, tracker_last, exp_call>>

KeyNext == DedupeKeys

KeySpec == KeyInit /\ [][KeyNext]_vars

\* ------------------------------------------------------------------------
\* final_sample.py fetch_eligible_pool_keys on a store being labelled
\* ------------------------------------------------------------------------

MaxPoolRows == 3

PoolKeys == {<<"1">>, <<"2">>}

\* an open store in which the posts of PoolKeys were upserted
PoolDb ==
    LET d == initialize_sqlite(EmptyDb).db
    IN  [d EXCEPT !.raw_posts =
            upsert_raw_post(upsert_raw_post(d.raw_posts, <<"1">>, <<"u">>, "{}", "apify", 1),
                            <<"2">>, <<"v">>, "{}", "apify", 1)]

PoolInit ==
    /\ MainIdle
    /\ tq = EmptyQueue
    /\ tq_last = NoQueueCall
    /\ tracker = NoTracker
    /\ tracker_last = NoPushes
    /\ exp_call = NoExpansionCall
    /\ db = PoolDb
    /\ conn = configure_connection
    /\ op_last = NoOp
    /\ pick = NoPick
    /\ fs = [c \in Connections |-> NoCall]
    /\ fs_hist = [r \in {} |-> {}]
    /\ keyed = NoKeyed
    /\ retry = NoRetry

PoolFrame ==
    UNCHANGED <<main, aux2, tq, tq_last, tracker, tracker_last, exp_call, conn, pick, fs,
                fs_hist>>

\* SQLiteStateStore.record_llm_decision with the created_at given or read
\* from the clock
PoolRecord ==
    /\ Len(db.llm_decisions) < MaxPoolRows
    /\ \E post_key \in PoolKeys, decision \in Decisions, created_at \in 1..MaxStamp :
         LET r == record_llm_decision(db.llm_decisions, db.raw_posts, post_key, decision,
                                      created_at)
         IN  /\ db' = [db EXCEPT !.llm_decisions = r.rows]
             /\ op_last' = [Called("record") EXCEPT !.key = post_key,
                                !.eligible = decision.eligible, !.ts = created_at]
    /\ PoolFrame

\* fetch_eligible_pool_keys(store, limit=limit)
PoolFetch ==
    /\ op_last.op # "fetch"
    /\ \E limit \in 0..MaxPoolRows :
         op_last' = [Called("fetch") EXCEPT
                        !.pool = fetch_pool_keys(db.raw_posts, db.llm_decisions, limit),
                        !.pool_n = limit]
    /\ UNCHANGED db
    /\ PoolFrame

PoolNext ==
    \/ PoolRecord
    \/ PoolFetch

PoolSpec == PoolInit /\ [][PoolNext]_vars

\* ------------------------------------------------------------------------
\* storage.py: create_run and finish_run called on a store
\* ------------------------------------------------------------------------

MaxRuns == 2

MaxRunCalls == 5

RunIds == 1..MaxRuns

RunInit == MainIdle /\ UnitIdle

RunFrame ==
    UNCHANGED <<cfg, apify_actor_runs, raw_posts, llm_decisions, pc, calls, resume_arg,
                result, locals, history, fallback_calls, unit>>

\* SQLiteStateStore.create_run(run_id=rid), started_at read from the clock
RunCreate ==
    /\ now <= MaxRunCalls
    /\ \E rid \in RunIds : runs' = create_run(runs, rid, now)
    /\ now' = now + 1
    /\ RunFrame

\* SQLiteStateStore.finish_run(rid), ended_at read from the clock
RunFinish ==
    /\ now <= MaxRunCalls
    /\ \E rid \in RunIds : runs' = finish_run(runs, rid, now)
    /\ now' = now + 1
    /\ RunFrame

RunNext ==
    \/ RunCreate
    \/ RunFinish

RunSpec == RunInit /\ [][RunNext]_vars

\* ------------------------------------------------------------------------
\* retry.py: call_with_retries.  Delays are whole seconds; fn() at attempt k
\* does outcomes[k]: kind "ok", "fatal" (is_retryable says no) or "retryable",
\* with the Retry-After hint is_retryable returns and the jitter factor drawn.
\* ------------------------------------------------------------------------

MaxAttempts == 3

\* retry_after None; _normalize_retry_after also answers None for a negative one
NoRetryAfter == -1

\* RetryConfig defaults, in whole seconds
MaxDelaySeconds == 20

RetryAfterCapSeconds == 60

Min(a, b) == IF a < b THEN a ELSE b

Max(a, b) == IF a > b THEN a ELSE b

\* _compute_backoff_seconds
compute_backoff_seconds(failure_attempt, cfg_r) ==
    LET exponent == Max(0, failure_attempt - 1)
        delay == cfg_r.base_delay_seconds * (2 ^ exponent)
    IN  Min(MaxDelaySeconds, Max(0, delay))

\* _apply_jitter with the factor random.uniform(1 - jitter, 1 + jitter) gave
apply_jitter(delay, cfg_r, factor) ==
    LET d == Max(0, delay)
    IN  IF d = 0 \/ cfg_r.jitter_ratio <= 0 THEN d ELSE Max(0, d * factor)

\* _normalize_retry_after
normalize_retry_after(value) ==
    IF value = NoRetryAfter THEN NoRetryAfter
    ELSE IF value < 0 THEN NoRetryAfter
    ELSE IF RetryAfterCapSeconds > 0 THEN Min(value, RetryAfterCapSeconds)
    ELSE value

\* lines 123-127
retry_delay(attempt, cfg_r, outcome) ==
    LET ra == normalize_retry_after(outcome.retry_after)
        backoff == compute_backoff_seconds(attempt, cfg_r)
        delay == IF ra # NoRetryAfter THEN Max(backoff, ra) ELSE backoff
    IN  apply_jitter(delay, cfg_r, outcome.factor)

Event(what, attempt) == [what |-> what, attempt |-> attempt]

\* the loop going on after the failure of attempt max_attempts
RECURSIVE retry_loop_one_more(_, _, _)
retry_loop_one_more(cfg_r, outcomes, attempt) ==
    IF attempt > cfg_r.max_attempts + 1
    THEN [events |-> <<>>, end |-> "runtime_error", attempt |-> 0]
    ELSE LET outcome == outcomes[attempt]
             called == <<Event("fn", attempt)>>
             failed == called \o <<Event("is_retryable", attempt)>>
         IN  IF outcome.kind = "ok"
             THEN [events |-> called, end |-> "returned", attempt |-> attempt]
             ELSE IF outcome.kind = "fatal" \/ attempt > cfg_r.max_attempts
             THEN [events |-> failed, end |-> "raised", attempt |-> attempt]
             ELSE LET delay == retry_delay(attempt, cfg_r, outcome)
                      slept == IF delay > 0 THEN <<Event("sleep", attempt)>> ELSE <<>>
                      rest == retry_loop_one_more(cfg_r, outcomes, attempt + 1)
                  IN  [events |-> failed \o slept \o rest.events, end |-> rest.end,
                       attempt |-> rest.attempt]

\* call_with_retries, lines 114-150, from the given attempt on
RECURSIVE retry_loop(_, _, _)
retry_loop(cfg_r, outcomes, attempt) ==
    IF attempt > cfg_r.max_attempts
    THEN [events |-> <<>>, end |-> "runtime_error", attempt |-> 0]
    ELSE LET outcome == outcomes[attempt]
             called == <<Event("fn", attempt)>>
             failed == called \o <<Event("is_retryable", attempt)>>
         IN  IF outcome.kind = "ok"
             THEN [events |-> called, end |-> "returned", attempt |-> attempt]
             ELSE IF outcome.kind = "fatal" \/ attempt >= cfg_r.max_attempts
             THEN [events |-> failed, end |-> "raised", attempt |-> attempt]
             ELSE LET delay == retry_delay(attempt, cfg_r, outcome)
                      slept == IF delay > 0 THEN <<Event("sleep", attempt)>> ELSE <<>>
                      rest == retry_loop(cfg_r, outcomes, attempt + 1)
                  IN  [events |-> failed \o slept \o rest.events, end |-> rest.end,
                       attempt |-> rest.attempt]

\* what fn() may do at one attempt
Outcomes ==
    {[kind |-> "ok", retry_after |-> NoRetryAfter, factor |-> 1],
     [kind |-> "fatal", retry_after |-> NoRetryAfter, factor |-> 1]}
    \cup {[kind |-> "retryable", retry_after |-> ra, factor |-> f] :
             ra \in {NoRetryAfter, 2}, f \in {0, 2}}

RetryInit ==
    /\ MainIdle
    /\ tq = EmptyQueue
    /\ tq_last = NoQueueCall
    /\ tracker = NoTracker
    /\ tracker_last = NoPushes
    /\ exp_call = NoExpansionCall
    /\ db = EmptyDb
    /\ conn = Closed
    /\ op_last = NoOp
    /\ pick = NoPick
    /\ fs = [c \in Connections |-> NoCall]
    /\ fs_hist = [r \in {} |-> {}]
    /\ keyed = NoKeyed
    /\ retry \in [max_attempts : 1..MaxAttempts, base_delay_seconds : {0, 1},
                  jitter_ratio : {0, 1}, outcomes : [1..(MaxAttempts + 1) -> Outcomes],
                  done : {FALSE}, events : {<<>>}, end : {"none"}, attempt : {0}]

\* call_with_retries(fn, cfg=..., is_retryable=...)
CallWithRetries ==
    /\ ~retry.done
    /\ LET r == retry_loop(retry, retry.outcomes, 1)
       IN  retry' = [retry EXCEPT !.done = TRUE, !.events = r.events, !.end = r.end,
                                  !.attempt = r.attempt]
    /\ UNCHANGED <<main, aux, keyed, tq, tq_last, tracker, tracker_last, exp_call>>

RetryNext == CallWithRetries

RetrySpec == RetryInit /\ [][RetryNext]_vars

\* ------------------------------------------------------------------------
\* Properties
\* ------------------------------------------------------------------------

DecisionRowsOf(k) == {i \in 1..Len(llm_decisions) : llm_decisions[i].post_key = k}

\* the run row of the call in progress or just ended (StartRun appends it)
CurrentRun == runs[Len(runs)]

\* a raw row written before the call in progress created its run
StoredBeforeThisCall(k) == k \in DOMAIN raw_posts /\ raw_posts[k].fetched_at < CurrentRun.started_at

\* C1: over all iterations and all run_feedback_loop calls on the same store,
\* the labeling collaborator is invoked at most once per post_key and at most
\* one decision row is written per post_key.
C1_LabelledAtMostOnce ==
    /\ \A k \in DOMAIN classify_calls : classify_calls[k] <= 1
    /\ \A k \in DOMAIN raw_posts : Cardinality(DecisionRowsOf(k)) <= 1

\* a later call meets an item that an earlier call stored and labelled
C1_Witness ==
    /\ calls >= 2
    /\ Ingesting
    /\ ItemPost # NoPost
    /\ ItemKey \in seen_keys
    /\ StoredBeforeThisCall(ItemKey)
    /\ Count(classify_calls, ItemKey) = 1
    /\ Cardinality(DecisionRowsOf(ItemKey)) = 1

Statuses == {"completed_pool", "max_raw_items", "max_iterations", "empty_query_queue"}

Running == pc \in {"iter", "ingest"}

\* what is left of a call: iterations, then the phases of one iteration, then
\* the items of the list being ingested
Remaining ==
    (cfg.max_iterations - iteration) * 3 * (MaxItemsPerCall + 1)
        + (IF pc = "iter" THEN 2 ELSE IF phase = "primary" THEN 1 ELSE 0)
              * (MaxItemsPerCall + 1)
        + Len(items)

C2_Returned ==
    /\ iteration <= cfg.max_iterations
    /\ pc = "ingest" => iteration < cfg.max_iterations
    /\ Running => Remaining >= 0
    /\ pc = "returned" =>
         /\ result.status \in Statuses
         /\ result.status = "max_iterations" => result.iterations = cfg.max_iterations
         /\ result.status # "max_iterations" => result.iterations < cfg.max_iterations

C2_Progress == (Running /\ Running') => Remaining' < Remaining

\* C2: a call makes at most max_iterations iterations and every step of it
\* brings it nearer to its end; a call that returns reports exactly one of the
\* four statuses, with status max_iterations the reported iteration count equals
\* max_iterations, with any other status it is strictly smaller.
C2_BoundedIterations == []C2_Returned /\ [][C2_Progress]_vars

\* the loop ran out of iterations, and a loop ended sooner by its pool
C2_Witness ==
    /\ pc = "returned"
    /\ result.status = "max_iterations"
    /\ result.iterations = MaxIterations

\* C3: whenever a call returns with eligible >= pool_n its status is
\* completed_pool, also when the target was reached in the last iteration.
C3_PoolMetMeansCompleted ==
    (pc = "returned" /\ result.eligible >= cfg.pool_n) => result.status = "completed_pool"

\* C4: on every path that returns a result, finish_run was applied exactly once
\* to the run named in the result; a run's ended_at is set at most once.
C4_FinishedExactlyOnce ==
    /\ \A i \in 1..Len(runs) :
         /\ Count(finish_calls, runs[i].run_id) <= 1
         /\ (runs[i].ended_at # NULL) <=> (Count(finish_calls, runs[i].run_id) = 1)
    /\ pc = "returned" =>
         /\ get_run(runs, result.run_id).ended_at # NULL
         /\ Count(finish_calls, result.run_id) = 1

\* a call returned while an earlier, aborted run is still unfinished
C4_Witness ==
    /\ pc = "returned"
    /\ get_run(runs, result.run_id).ended_at # NULL
    /\ \E i \in 1..Len(runs) : runs[i].ended_at = NULL

\* C5: when a collaborator raises, the exception leaves run_feedback_loop
\* without finish_run: the run stays unfinished, no result is returned, and no
\* decision row exists for the item whose labeling failed (its raw row does).
C5_AbortLeavesRunUnfinished ==
    pc = "aborted" =>
        /\ CurrentRun.ended_at = NULL
        /\ Count(finish_calls, CurrentRun.run_id) = 0
        /\ result = NoResult
        /\ failed_key # NoKey =>
             /\ failed_key \in DOMAIN raw_posts
             /\ DecisionRowsOf(failed_key) = {}

\* the labeling collaborator raised on an item
C5_Witness == pc = "aborted" /\ failed_key # NoKey /\ failed_key \in DOMAIN raw_posts

\* the unfinished run started last
LatestUnfinished(rs) ==
    CHOOSE r \in Unfinished(rs) :
        \A q \in Unfinished(rs) : get_run(rs, q).started_at <= get_run(rs, r).started_at

\* C6: a call with resume enabled on a store holding several unfinished runs
\* continues the unfinished run started last: no run is created, that run is
\* the one the call works on and finishes, the older ones stay unfinished.
C6_ResumeContinuesLatest ==
    (resume_arg /\ Cardinality(unfinished_at_call) >= 2) =>
        /\ pc \in {"iter", "ingest", "returned", "aborted"}
        /\ Unfinished(runs) \subseteq unfinished_at_call
        /\ pc \in {"iter", "ingest"} => run_id = LatestUnfinished(runs)
        /\ pc = "returned" => unfinished_at_call \ Unfinished(runs) = {result.run_id}

\* C7: at the start of a call and after every processed item the locals agree
\* with the store (raw_total, decision_total, eligible_total, seen_keys), and
\* the counters reported in the result are those of the store.
C7_CountersMatchStore ==
    /\ pc \in {"iter", "ingest"} =>
         /\ raw_total = Cardinality(DOMAIN raw_posts)
         /\ decision_total = Len(llm_decisions)
         /\ eligible_total = Cardinality(eligible_posts(raw_posts, llm_decisions))
         /\ seen_keys = DOMAIN raw_posts
    /\ pc = "returned" =>
         /\ result.raw_posts = Cardinality(DOMAIN raw_posts)
         /\ result.decisions = Len(llm_decisions)
         /\ result.eligible = Cardinality(eligible_posts(raw_posts, llm_decisions))

\* a call started on a store that earlier calls had filled, and returned
C7_Witness ==
    /\ pc = "returned"
    /\ calls >= 2
    /\ result.decisions > 0
    /\ \E k \in DOMAIN raw_posts : StoredBeforeThisCall(k)

\* C8: every stored decision with eligible = true satisfies the deterministic
\* rules on its own structured fields.
C8_StoredEligibleFollowsRules ==
    \A i \in 1..Len(llm_decisions) :
        llm_decisions[i].eligible =>
            compute_structured_eligibility(llm_decisions[i].decision_json)

\* the owner key of a stored raw row
OwnerOfStored(k) ==
    LET post == normalized_post_from_apify_item(raw_posts[k].raw_json)
    IN  user_key_of(post.owner_username, post.owner_id)

\* keys in the eligible pool that belong to owner u
EligibleKeysOf(u) ==
    {k \in DOMAIN raw_posts :
        /\ OwnerOfStored(k) = u
        /\ \E i \in eligible_posts(raw_posts, llm_decisions) : llm_decisions[i].post_key = k}

Labelled == last # NoLast

\* C9: with a cap c > 0 no owner has more than c eligible stored decisions; an
\* eligible decision for an owner at the cap is stored ineligible with
\* "dominance_guard" appended and the counter is left alone, any other eligible
\* decision of a known owner is stored untouched and the counter goes up by one.
C9_DominanceCap ==
    cfg.max_posts_per_user > 0 =>
        /\ \A k \in DOMAIN raw_posts :
             OwnerOfStored(k) # NoUser =>
                 Cardinality(EligibleKeysOf(OwnerOfStored(k))) <= cfg.max_posts_per_user
        /\ (Labelled /\ last.returned.eligible /\ last.user_key # NoUser) =>
             IF last.count_before >= cfg.max_posts_per_user
             THEN /\ last.stored = [last.returned EXCEPT
                                      !.eligible = FALSE,
                                      !.eligibility_reasons = Append(@, "dominance_guard")]
                  /\ last.counts_after = last.counts_before
             ELSE /\ last.stored = last.returned
                  /\ last.counts_after = Inc(last.counts_before, last.user_key)

\* an eligible decision arrived for an owner already at the cap and was flipped
C9_Witness ==
    /\ cfg.max_posts_per_user > 0
    /\ Labelled
    /\ last.returned.eligible
    /\ ~last.stored.eligible
    /\ Cardinality(EligibleKeysOf(last.user_key)) = cfg.max_posts_per_user

\* C10: with a cap of 0 the guard returns every decision unchanged and leaves
\* the per-owner counters unchanged.
C10_ZeroCapIsNoOp ==
    (cfg.max_posts_per_user = 0 /\ Labelled) =>
        /\ last.stored = last.returned
        /\ last.counts_after = last.counts_before

\* with a cap of 0 a second eligible decision of the same owner was stored
C10_Witness ==
    /\ cfg.max_posts_per_user = 0
    /\ Labelled
    /\ last.stored.eligible
    /\ Cardinality(EligibleKeysOf(last.user_key)) >= 2

\* the index of a queued term with the case-folded form of t, if there is one
QueuedLike(q, t) == {i \in 1..Len(q.queue) : casefold(q.queue[i]) = casefold(normalize_term(t))}

\* C13: add(t) returns false exactly when the normalized t is empty or a term
\* with the same case-folded form is in the queue at the time of the call; so a
\* term that pop_batch has removed can be added again.
C13_AddDedupeIsScopedToQueued ==
    tq_last.op = "add" =>
        (~tq_last.ret <=>
            \/ normalize_term(tq_last.arg) = <<>>
            \/ QueuedLike(tq_last.before, tq_last.arg) # {})

\* a term was added, popped, and added again with success
C13_Witness ==
    /\ tq_last.op = "add"
    /\ tq_last.ret
    /\ \E i \in 1..tq_last.popped :
         casefold(tq_last.log[i]) = casefold(normalize_term(tq_last.arg))

\* C14: pop_batch(n) with n > 0 returns the first min(n, length) terms of the
\* queue, which are the terms enqueued earliest and not yet popped, as they
\* were enqueued; it removes exactly those and keeps the order of the rest.
C14_PopIsFifo ==
    /\ tq.queue = SubSeq(tq_last.log, tq_last.popped + 1, Len(tq_last.log))
    /\ tq.present = {casefold(tq.queue[i]) : i \in 1..Len(tq.queue)}
    /\ (tq_last.op = "pop" /\ tq_last.arg > 0) =>
         LET len == Len(tq_last.before.queue)
             k   == IF tq_last.arg < len THEN tq_last.arg ELSE len
         IN  /\ ~tq_last.raised
             /\ Len(tq_last.out) = k
             /\ tq_last.out = SubSeq(tq_last.before.queue, 1, k)
             /\ tq_last.out = SubSeq(tq_last.log, tq_last.popped - k + 1, tq_last.popped)
             /\ tq.queue = SubSeq(tq_last.before.queue, k + 1, len)

\* two terms were popped, one of them enqueued in upper case, and one stayed
C14_Witness ==
    /\ tq_last.op = "pop"
    /\ Len(tq_last.out) = 2
    /\ \E i \in 1..2 : tq_last.out[i] # casefold(tq_last.out[i])
    /\ Len(tq.queue) = 1

\* C15: pop_batch(n) with n <= 0 raises and leaves the queue and the present
\* keys as they were.
C15_PopRejectsNonPositive ==
    (tq_last.op = "pop" /\ tq_last.arg <= 0) =>
        /\ tq_last.raised
        /\ tq_last.out = <<>>
        /\ tq = tq_last.before

\* pop_batch(0) or pop_batch(-1) was called on a queue that held terms
C15_Witness ==
    /\ tq_last.op = "pop"
    /\ tq_last.arg <= 0
    /\ tq_last.raised
    /\ Len(tq_last.before.queue) > 0

\* the window after the i-th push: the last window_size values pushed so far
WindowAfter(i) ==
    SubSeq(tracker_last.pushed,
           IF i > tracker.window_size THEN i - tracker.window_size + 1 ELSE 1, i)

RECURSIVE SumOf(_)
SumOf(seq) == IF seq = <<>> THEN 0 ELSE seq[1] + SumOf(Tail(seq))

\* C16: push returns true exactly when the window is full, and min_new_total
\* <= window_size or at least min_new_total pushes were made, and the sum of the
\* window is strictly less than min_new_total.
C16_PushSignalsStagnation ==
    /\ Len(tracker_last.rets) = Len(tracker_last.pushed)
    /\ tracker.seen = Len(tracker_last.pushed)
    /\ Len(tracker_last.pushed) > 0 => tracker.values = WindowAfter(Len(tracker_last.pushed))
    /\ \A i \in 1..Len(tracker_last.rets) :
         /\ tracker_last.rets[i] <=>
              /\ Len(WindowAfter(i)) = tracker.window_size
              /\ tracker.min_new_total <= tracker.window_size \/ i >= tracker.min_new_total
              /\ SumOf(WindowAfter(i)) < tracker.min_new_total
         /\ SumOf(WindowAfter(i)) >= tracker.min_new_total => ~tracker_last.rets[i]

\* a push returned true after an older value had been evicted
C16_Witness ==
    /\ Len(tracker_last.rets) > tracker.window_size
    /\ tracker_last.rets[Len(tracker_last.rets)]
    /\ ~tracker_last.rets[Len(tracker_last.rets) - 1]

\* C17: none of the first min_new_total - 1 pushes returns true when
\* min_new_total > window_size, and none of the first window_size - 1 pushes
\* when min_new_total <= window_size.
C17_NoSignalDuringWarmUp ==
    \A i \in 1..Len(tracker_last.rets) :
        /\ (tracker.min_new_total > tracker.window_size /\ i <= tracker.min_new_total - 1)
               => ~tracker_last.rets[i]
        /\ (tracker.min_new_total <= tracker.window_size /\ i <= tracker.window_size - 1)
               => ~tracker_last.rets[i]

\* the window is full and its sum is below a threshold larger than the window,
\* with fewer than min_new_total pushes made
C17_Witness ==
    /\ tracker.min_new_total > tracker.window_size
    /\ Len(tracker_last.rets) >= tracker.window_size
    /\ Len(tracker_last.rets) < tracker.min_new_total
    /\ Len(tracker_last.rets) > 0
    /\ SumOf(tracker.values) < tracker.min_new_total

\* the tags of the call that pass every filter
Qualifying ==
    {t \in DOMAIN exp_call.hashtag_counts :
        /\ exp_call.hashtag_counts[t] >= exp_call.min_freq
        /\ casefold(t) \notin exp_call.blocklist_keys
        /\ casefold(t) \notin exp_call.attempted_keys
        /\ casefold(t) \notin exp_call.present_keys}

\* frequency descending, then case-insensitive lexical order, then the string
Ranks(counts, t, u) ==
    \/ counts[t] > counts[u]
    \/ counts[t] = counts[u] /\ StrLess(casefold(t), casefold(u))
    \/ counts[t] = counts[u] /\ casefold(t) = casefold(u) /\ StrLess(t, u)

RanksBefore(t, u) == Ranks(exp_call.hashtag_counts, t, u)

\* C19: _selected_expansion_terms returns at most max_terms terms, each
\* frequent enough and neither blocklisted, attempted nor queued, and they are
\* the first such candidates by frequency descending, then case-insensitive
\* lexical order, then original string.
C19_ExpansionSelection ==
    exp_call.done =>
        LET out == exp_call.out
            n   == Cardinality(Qualifying)
        IN  /\ Len(out) <= exp_call.max_terms
            /\ Len(out) = IF exp_call.max_terms < n THEN exp_call.max_terms ELSE n
            /\ \A i \in 1..Len(out) : out[i] \in Qualifying
            /\ \A i, j \in 1..Len(out) : i < j => RanksBefore(out[i], out[j])
            /\ \A t \in Qualifying :
                 (\A i \in 1..Len(out) : out[i] # t) =>
                     \A i \in 1..Len(out) : RanksBefore(out[i], t)

\* two terms were returned that differ in case only, with a tag left out for
\* having been attempted and another for its frequency
C19_Witness ==
    /\ exp_call.done
    /\ Len(exp_call.out) = 2
    /\ casefold(exp_call.out[1]) = casefold(exp_call.out[2])
    /\ \E t \in DOMAIN exp_call.hashtag_counts : casefold(t) \in exp_call.attempted_keys
    /\ \E t \in DOMAIN exp_call.hashtag_counts :
         exp_call.hashtag_counts[t] < exp_call.min_freq

\* the primary batch of the iteration has been ingested
PrimaryIngested == pc = "ingest" /\ items = <<>> /\ phase = "primary"

\* the tracker's answer to this iteration's count of new eligible items
Stagnated ==
    StagnationTracker_push(stagnation, new_eligible, cfg.stagnation_window,
                           cfg.stagnation_min_new_eligible).ret

C20_FallbackStep ==
    (fallback_calls' # fallback_calls) <=>
        (PrimaryIngested /\ Stagnated /\ eligible_total < cfg.pool_n)

\* C20: the fallback discovery collaborator is called in an iteration if and
\* only if the tracker signalled stagnation for the iteration's new-eligible
\* count and the pool target is not met.
C20_FallbackOnlyOnStagnation == [][C20_FallbackStep]_vars

\* the tracker signals stagnation for an iteration in which the pool target
\* was met: the one case where a stagnation signal calls no fallback
C20_Witness ==
    /\ PrimaryIngested
    /\ Stagnated
    /\ eligible_total >= cfg.pool_n

EligibleStored == Cardinality(eligible_posts(raw_posts, llm_decisions))

C11_Capped == EligibleStored <= cfg.pool_n

\* with the pool target met nothing is stored, labelled or discovered
C11_Quiet ==
    EligibleStored >= cfg.pool_n =>
        /\ raw_posts' = raw_posts
        /\ llm_decisions' = llm_decisions
        /\ classify_calls' = classify_calls
        /\ apify_actor_runs' = apify_actor_runs
        /\ discoveries' = discoveries
        /\ fallback_calls' = fallback_calls
        /\ pc' # "aborted"

\* C11: starting from a store with fewer than pool_n eligible items the
\* eligible count never exceeds pool_n; once the target is met no further item
\* is stored or labelled and no primary or fallback discovery call is made.
C11_StopsAtPoolTarget == []C11_Capped /\ [][C11_Quiet]_vars

\* items of the batch that the store does not hold
NotStored(batch) ==
    {i \in 1..Len(batch) :
        /\ normalized_post_from_apify_item(batch[i]) # NoPost
        /\ dedupe_key(normalized_post_from_apify_item(batch[i])) \notin DOMAIN raw_posts}

\* the pool target was met in the middle of a primary batch, a new item of the
\* batch was left out, and the tracker signals stagnation for the iteration
C11_Witness ==
    /\ PrimaryIngested
    /\ eligible_total >= cfg.pool_n
    /\ Labelled
    /\ last.stored.eligible
    /\ NotStored(last.rest) # {}
    /\ Stagnated

C12_Capped == Cardinality(DOMAIN raw_posts) <= cfg.max_raw_items

\* the termination check at the top of an iteration
C12_Check ==
    (pc = "iter" /\ iteration < cfg.max_iterations /\ raw_total >= cfg.max_raw_items) =>
        /\ pc' = "returned"
        /\ result'.status =
               IF eligible_total >= cfg.pool_n THEN "completed_pool" ELSE "max_raw_items"
        /\ apify_actor_runs' = apify_actor_runs
        /\ discoveries' = discoveries
        /\ fallback_calls' = fallback_calls

\* C12: the stored raw items never exceed max_raw_items, in the primary and
\* in the fallback path; a termination check with the cap reached returns
\* max_raw_items without a discovery call, or completed_pool when the pool
\* target is met as well.
C12_RawCap == []C12_Capped /\ [][C12_Check]_vars

\* a call returned max_raw_items on a store filled to the cap, partly by the
\* fallback path
C12_Witness ==
    /\ pc = "returned"
    /\ result.status = "max_raw_items"
    /\ Cardinality(DOMAIN raw_posts) = cfg.max_raw_items
    /\ \E k \in DOMAIN raw_posts : raw_posts[k].actor_source = "fallback"

\* hashtags of the item labelled last
LastHashtags ==
    Range(normalized_post_from_apify_item(raw_posts[last.post_key].raw_json).hashtags)

\* b is a hashtag of an item accepted in this batch, frequent enough and
\* neither blocklisted, attempted nor queued
Expandable(b) ==
    /\ Count(hashtag_counts, b) >= cfg.min_hashtag_freq_in_eligible
    /\ casefold(b) \notin blocklist_keys
    /\ casefold(b) \notin attempted_keys
    /\ casefold(b) \notin queue.present

AcceptedTags ==
    IF Labelled /\ last.stored.eligible /\ new_eligible > 0 THEN LastHashtags ELSE {}

\* the first iteration ends and a second one follows
FirstIterationEnds ==
    /\ PrimaryIngested
    /\ iteration = 0
    /\ cfg.expansion_enabled
    /\ cfg.run_batch_queries = 1
    /\ iteration' = 1
    /\ pc' = "iter"

\* what the discovery call of the iteration about to run receives, if one is made
NextBatchIs(b) ==
    /\ casefold(b) \in queue.present
    /\ CanDiscover => PoppedBatch.out = <<b>>

RanksFirst(b) ==
    \A t \in DOMAIN hashtag_counts :
        (t # b /\ Expandable(t)) => Ranks(hashtag_counts, b, t)

Upserted == op_last.op = "upsert" /\ op_last.raised = "none"

\* the actor_source an upsert leaves in its row
SourceAfterUpsert ==
    IF op_last.actor_source # "" THEN op_last.actor_source
    ELSE IF op_last.key \in DOMAIN op_last.before.raw_posts
    THEN op_last.before.raw_posts[op_last.key].actor_source
    ELSE ""

\* C21: after any sequence of upsert_raw_post calls there is exactly one
\* raw_posts row per distinct post_key and no row is ever removed; an upsert
\* of an existing key overwrites url, payload and fetched_at with its values
\* and keeps the recorded actor_source when it supplies none.
C21_UpsertIsIdempotentOnKey ==
    /\ DOMAIN db.raw_posts = op_last.upserted
    /\ DOMAIN op_last.before.raw_posts \subseteq DOMAIN db.raw_posts
    /\ Upserted =>
         /\ db.raw_posts[op_last.key] =
                [url |-> op_last.url, actor_source |-> SourceAfterUpsert,
                 raw_json |-> op_last.raw_item, fetched_at |-> op_last.ts]
         /\ \A k \in DOMAIN op_last.before.raw_posts \ {op_last.key} :
                db.raw_posts[k] = op_last.before.raw_posts[k]

\* a key was upserted again with another url, payload and time and no source,
\* over a row that had a source
C21_Witness ==
    /\ Upserted
    /\ op_last.key \in DOMAIN op_last.before.raw_posts
    /\ op_last.actor_source = ""
    /\ op_last.before.raw_posts[op_last.key].actor_source # ""
    /\ op_last.before.raw_posts[op_last.key].url # op_last.url
    /\ op_last.before.raw_posts[op_last.key].raw_json # op_last.raw_item
    /\ op_last.before.raw_posts[op_last.key].fetched_at # op_last.ts

\* the positions in the log of the decisions recorded for a key
LoggedFor(k) == {i \in 1..Len(op_last.log) : op_last.log[i].post_key = k}

\* the decision recorded last for a key
LastLogged(k) == op_last.log[CHOOSE i \in LoggedFor(k) : \A j \in LoggedFor(k) : j <= i]

\* the rows of the view latest_llm_decisions for a key
LatestRows(k) ==
    {db.llm_decisions[i] : i \in {j \in latest_llm_decisions(db.llm_decisions) :
                                     db.llm_decisions[j].post_key = k}}

\* the post keys of the view eligible_posts
EligiblePool ==
    {db.llm_decisions[i].post_key : i \in eligible_posts(db.raw_posts, db.llm_decisions)}

\* C22: for a post_key with decisions, latest_decision and the views
\* latest_llm_decisions and eligible_posts use the decision inserted last,
\* whatever created_at values were supplied; the key is in the eligible pool
\* exactly when that decision is eligible.
C22_LatestIsLastInserted ==
    \A k \in DOMAIN db.raw_posts :
        LoggedFor(k) # {} =>
            /\ latest_decision(db.llm_decisions, k) = LastLogged(k)
            /\ LatestRows(k) = {LastLogged(k)}
            /\ k \in EligiblePool <=> LastLogged(k).eligible

\* a key has an eligible decision followed by an ineligible one with an
\* earlier created_at
C22_Witness ==
    \E k \in DOMAIN db.raw_posts :
        \E i, j \in LoggedFor(k) :
            /\ i < j
            /\ j = Len(op_last.log)
            /\ op_last.log[j].created_at < op_last.log[i].created_at
            /\ op_last.log[i].eligible
            /\ ~op_last.log[j].eligible

\* C23: every decision row's post_key is in raw_posts; record_llm_decision
\* for a post_key that is not in raw_posts raises, a storage error when the
\* arguments are not blank, and leaves the store as it was.
C23_DecisionsReferToRawPosts ==
    /\ \A i \in 1..Len(db.llm_decisions) : db.llm_decisions[i].post_key \in DOMAIN db.raw_posts
    /\ (op_last.op = "record" /\ op_last.key \notin DOMAIN op_last.before.raw_posts) =>
           /\ op_last.raised # "none"
           /\ op_last.key # <<>> => op_last.raised = "StorageError"
           /\ db = op_last.before

\* a decision for a key that was never upserted was refused by a store that
\* holds other rows
C23_Witness ==
    /\ op_last.op = "record"
    /\ op_last.raised = "StorageError"
    /\ op_last.key \notin DOMAIN db.raw_posts
    /\ db.raw_posts # EmptyDb.raw_posts
    /\ db.llm_decisions # <<>>

\* the schema without the ledger table, which _apply_migrations makes before
\* it applies a version
VersionedSchema(d) == [n \in DOMAIN d.schema \ {"schema_migrations"} |-> d.schema[n]]

\* C24: initialize_sqlite may be called any number of times: the ledger holds
\* one row per applied version, a repeated call leaves the data as it was, and
\* when applying a version fails neither its schema changes nor its ledger row
\* remain.
C24_MigrationsAreAtomic ==
    /\ Len(db.schema_migrations) = Cardinality(Range(db.schema_migrations))
    /\ op_last.op = "open" =>
         /\ db.raw_posts = op_last.before.raw_posts
         /\ db.llm_decisions = op_last.before.llm_decisions
         /\ op_last.raised # "none" =>
              /\ db.schema_migrations = op_last.before.schema_migrations
              /\ VersionedSchema(db) = VersionedSchema(op_last.before)

\* rows of a run in final_samples
Membership(d, rid) == {m \in d.final_samples : m[1] = rid}

\* C30: on a store that SQLiteStateStore.open initialized, an export for a run
\* whose eligible pool has reached pool_n persists one final-sample metadata
\* row and min(final_n, pool size) membership rows; below pool_n it computes a
\* sample and persists nothing.
C30_ExportPersistsFinalSample ==
    (op_last.op = "export" /\ Finished(fs[1])) =>
        /\ op_last.raised = "none"
        /\ IF Len(op_last.pool) >= op_last.pool_n
           THEN /\ ExportRun \in DOMAIN db.final_sample_runs
                /\ Cardinality(Membership(db, ExportRun)) =
                       (IF op_last.final_n < Len(op_last.pool) THEN op_last.final_n
                        ELSE Len(op_last.pool))
           ELSE /\ ExportRun \notin DOMAIN db.final_sample_runs
                /\ Membership(db, ExportRun) = {}

Distinct(seq) == Cardinality(Range(seq)) = Len(seq)

\* C26: for a pool of distinct keys pick_final_keys returns a subset of the
\* pool of exactly min(final_n, pool size) keys: the whole pool when final_n
\* is at least the pool size, and the empty set when final_n <= 0 or the pool
\* is empty.
C26_PickSizeAndSubset ==
    (pick.done /\ Distinct(pick.pool_keys)) =>
        /\ ~pick.raised
        /\ pick.keys \subseteq Range(pick.pool_keys)
        /\ Cardinality(pick.keys) =
               (IF pick.final_n <= 0 THEN 0
                ELSE IF pick.final_n < Len(pick.pool_keys) THEN pick.final_n
                ELSE Len(pick.pool_keys))
        /\ pick.final_n >= Len(pick.pool_keys) => pick.keys = Range(pick.pool_keys)

\* two keys were picked out of three
C26_Witness ==
    /\ pick.done
    /\ Distinct(pick.pool_keys)
    /\ Len(pick.pool_keys) = 3
    /\ pick.final_n = 2
    /\ Cardinality(pick.keys) = 2

Persisted(rid) == rid \in DOMAIN db.final_sample_runs

StoredKeys(rid) == {m[2] : m \in Membership(db, rid)}

\* the steps of a call that connection c begins when the run has a sample
C27_Step(c) ==
    /\ (Finished(fs[c]) /\ fs'[c].n = fs[c].n + 1 /\ Persisted(fs'[c].run_id)) =>
           /\ fs'[c].pc = "load_keys"
           /\ db' = db
    /\ (fs[c].pc = "load_keys" /\ fs'[c] # fs[c]) =>
           /\ fs'[c].pc = "returned"
           /\ fs'[c].ret_keys = StoredKeys(fs[c].run_id)
           /\ fs'[c].ret_meta = db.final_sample_runs[fs[c].run_id]
           /\ db' = db

OtherPool(call, meta) == pool_keys_sha256(call.pool_keys) # meta.pool_keys_sha256

\* C28: a call with persist = true for a run that has a persisted sample, with
\* a pool whose hash differs from the stored one, fails with a StorageError
\* and does not return a sample.
C28_SecondAttemptIsAnError ==
    \A c \in Connections :
        (Finished(fs[c]) /\ fs[c].persist /\ fs[c].existing # NoMeta
            /\ OtherPool(fs[c], fs[c].existing)) =>
                fs[c].pc = "raised"

\* C29: a run with a metadata row has exactly the membership rows of the call
\* whose metadata row was stored, and a persisting call that lost to a call
\* with another pool raises StorageError.
C29_SampleIsWrittenAtomically ==
    /\ \A rid \in DOMAIN db.final_sample_runs : StoredKeys(rid) = fs_hist[rid]
    /\ \A c \in Connections :
           (Finished(fs[c]) /\ fs[c].persist /\ fs[c].existing = NoMeta /\ ~fs[c].wrote_meta
               /\ fs[c].n > 0 /\ Persisted(fs[c].run_id)
               /\ OtherPool(fs[c], db.final_sample_runs[fs[c].run_id])) =>
                   fs[c].pc = "raised"

HasId(item) == Len(strip(item.id)) > 0

HasCode(item) == Len(strip(item.shortCode)) > 0

\* urlsplit finds a scheme and a host in the string
Absolute(url) == url.scheme # "" /\ Len(url.host) > 0

WithoutWww(host) == IF Len(host) > 1 /\ host[1] = "www" THEN Tail(host) ELSE host

\* two URLs that differ at most in the letter case of scheme and host, a
\* "www." prefix, a trailing slash, the query and the fragment
SameAddress(u, v) ==
    /\ Lower(u.scheme) = Lower(v.scheme)
    /\ WithoutWww(casefold(u.host)) = WithoutWww(casefold(v.host))
    /\ u.segs = v.segs

\* the key has the form the first of id, short code and URL gives it
KeyForm(item, key) ==
    /\ HasId(item) => key.kind = "id" /\ key.id = strip(item.id)
    /\ (~HasId(item) /\ HasCode(item)) =>
           key.kind = "shortcode" /\ key.id = strip(item.shortCode)
    /\ (~HasId(item) /\ ~HasCode(item)) => key.kind = "url" /\ key.id = <<>>

KeyedByUrl == ~HasId(keyed.a) /\ ~HasCode(keyed.a) /\ ~HasId(keyed.b) /\ ~HasCode(keyed.b)

SameLogicalItem(a, b) ==
    /\ Absolute(a.url) /\ Absolute(b.url)
    /\ SameAddress(a.url, b.url)
    /\ (HasId(a) /\ HasId(b)) => strip(a.id) = strip(b.id)
    /\ (HasCode(a) /\ HasCode(b)) => strip(a.shortCode) = strip(b.shortCode)

\* C32: two discovered records of the same logical item have the same
\* post_key, also when only one of them carries the content id.
C32_SameItemSameKey ==
    (keyed.done /\ SameLogicalItem(keyed.a, keyed.b)) => keyed.key_a = keyed.key_b

\* the row of the latest decision of a key: the last one inserted for it
LatestRowOf(ld, k) ==
    CHOOSE i \in 1..Len(ld) :
        ld[i].post_key = k /\ \A j \in 1..Len(ld) : ld[j].post_key = k => j <= i

\* the keys whose latest decision is eligible, in the order in which those
\* decisions were inserted
RECURSIVE AcceptanceOrderFrom(_, _)
AcceptanceOrderFrom(ld, i) ==
    IF i > Len(ld) THEN <<>>
    ELSE (IF ld[i].eligible /\ LatestRowOf(ld, ld[i].post_key) = i
          THEN <<ld[i].post_key>> ELSE <<>>) \o AcceptanceOrderFrom(ld, i + 1)

AcceptanceOrder(ld) == AcceptanceOrderFrom(ld, 1)

\* C33: the list fetch_eligible_pool_keys returns is the first limit keys, in
\* acceptance order, of the items whose latest decision is eligible.
C33_PoolIsInAcceptanceOrder ==
    op_last.op = "fetch" =>
        op_last.pool = FirstN(AcceptanceOrder(db.llm_decisions), op_last.pool_n)

\* C34: from one step of a run to the next the per-query result limit never
\* decreases, for every configured starting limit.
C34_LimitNeverDecreases ==
    [][(Running /\ Running') => current_results_limit' >= current_results_limit]_vars

\* the queue a refill of an empty queue gives, and the batch popped from it
RefilledBatch == TermQueue_pop_batch(TermQueue_init(cfg.seed_terms), cfg.run_batch_queries)

\* an iteration begins with an empty queue
StartsEmpty == CanDiscover /\ queue.queue = <<>>

\* a discovery call made from an empty queue receives the batch popped from
\* the refilled queue; the run ends with empty_query_queue only when the
\* refill leaves the queue empty
C35_Step ==
    StartsEmpty =>
        /\ pc' = "ingest" =>
              /\ RefilledBatch.out # <<>>
              /\ queue' = RefilledBatch.q
              /\ attempted_keys' =
                     attempted_keys \cup {casefold(b) : b \in Range(RefilledBatch.out)}
        /\ pc' = "returned" =>
              /\ result'.status = "empty_query_queue"
              /\ TermQueue_init(cfg.seed_terms).queue = <<>>

\* no run ends with empty_query_queue when a seed term normalizes to a
\* non-empty term
C35_NeverEmptyWithSeeds ==
    result.status = "empty_query_queue" =>
        \A i \in 1..Len(cfg.seed_terms) : normalize_term(cfg.seed_terms[i]) = <<>>

\* C35: an iteration that finds the queue empty refills it from the seed
\* terms once and pops its batch from the refilled queue; empty_query_queue is
\* returned only if the queue is still empty after the refill, which does not
\* happen when a seed term normalizes to a non-empty term.
C35_RefillOnce == []C35_NeverEmptyWithSeeds /\ [][C35_Step]_vars

\* the second iteration of a run found the queue empty (nothing was expanded
\* or discovered) and its discovery call received the seed term again
C35_Witness ==
    /\ calls = 1
    /\ iteration = 1
    /\ pc = "ingest"
    /\ phase = "primary"
    /\ hashtag_counts = EmptyCounter
    /\ fallback_calls = 0
    /\ discoveries = 2
    /\ cfg.seed_terms = <<<<"a">>>>
    /\ attempted_keys = {<<"a">>}
    /\ queue.queue = <<>>

\* C36: a run's ended_at, once a timestamp, keeps its value through every
\* later create_run and finish_run call.
C36_EndedAtSetOnce ==
    [][\A i \in 1..Len(runs) :
          runs[i].ended_at # NULL =>
              /\ i <= Len(runs')
              /\ runs'[i].run_id = runs[i].run_id
              /\ runs'[i].ended_at = runs[i].ended_at]_vars

\* C37: present_keys() is exactly the set of the case-folded forms of the
\* terms in the queue, and no two terms in the queue have the same
\* case-folded form.
C37_PresentKeysMatchQueue ==
    /\ TermQueue_present_keys(tq) = {casefold(t) : t \in Range(tq.queue)}
    /\ \A i, j \in 1..Len(tq.queue) :
           casefold(tq.queue[i]) = casefold(tq.queue[j]) => i = j

\* add_many was called after a pop, on a term spelled in another case than a
\* queued one, and the queue holds two terms, one not in its case-folded form
C37_Witness ==
    /\ tq_last.op = "add_many"
    /\ tq_last.popped > 0
    /\ Len(tq.queue) = 2
    /\ \E t \in Range(tq.queue) : casefold(t) # t
    /\ \E i \in 1..2 :
          /\ normalize_term(tq_last.arg[i]) \notin Range(tq.queue)
          /\ casefold(normalize_term(tq_last.arg[i])) \in TermQueue_present_keys(tq)

\* the item being ingested passed the prechecks and was sent to the labeling
\* collaborator by an earlier call that aborted: its raw row is stored and it
\* has no decision
LabelingFailedEarlier ==
    /\ Ingesting
    /\ ItemPost # NoPost
    /\ run_prechecks(ItemPost, cfg.filters)
    /\ ItemKey \in DOMAIN raw_posts
    /\ DecisionRowsOf(ItemKey) = {}
    /\ Count(classify_calls, ItemKey) > 0

\* C39: when a later call's discovery returns an item whose labeling raised
\* after its raw row was stored, the step that ingests the item sends it to
\* the labeling collaborator.
C39_StoredItemIsLabelledLater ==
    [][LabelingFailedEarlier =>
          Count(classify_calls', ItemKey) = Count(classify_calls, ItemKey) + 1]_vars


\* ---- C40 ----

FnCalls == {i \in 1..Len(retry.events) : retry.events[i].what = "fn"}

Sleeps == {i \in 1..Len(retry.events) : retry.events[i].what = "sleep"}

\* the first attempt that does not fail retryably, 0 when there is none within
\* max_attempts
FirstDecisive ==
    LET ks == {k \in 1..retry.max_attempts : retry.outcomes[k].kind # "retryable"}
    IN  IF ks = {} THEN 0 ELSE CHOOSE k \in ks : \A j \in ks : k <= j

\* C40: call_with_retries calls fn at most max_attempts times; it returns at
\* the first successful attempt and calls nothing after it; on a failure that
\* is not retryable it raises at once, with no sleep after that attempt; when
\* attempt max_attempts fails it raises that failure; and every sleep has a
\* failed attempt before it and the next attempt right after it.
C40_RetriesAreBounded ==
    retry.done =>
        /\ Cardinality(FnCalls) <= retry.max_attempts
        /\ Cardinality(FnCalls) = retry.attempt
        /\ \A i \in FnCalls : retry.events[i].attempt = Cardinality({j \in FnCalls : j <= i})
        /\ (FirstDecisive # 0 /\ retry.outcomes[FirstDecisive].kind = "ok") =>
              /\ retry.end = "returned"
              /\ retry.attempt = FirstDecisive
              /\ retry.events[Len(retry.events)] = Event("fn", FirstDecisive)
        /\ (FirstDecisive # 0 /\ retry.outcomes[FirstDecisive].kind = "fatal") =>
              /\ retry.end = "raised"
              /\ retry.attempt = FirstDecisive
              /\ retry.events[Len(retry.events)] = Event("is_retryable", FirstDecisive)
        /\ FirstDecisive = 0 =>
              /\ retry.end = "raised"
              /\ retry.attempt = retry.max_attempts
              /\ retry.events[Len(retry.events)] = Event("is_retryable", retry.max_attempts)
        /\ \A i \in Sleeps :
              /\ i > 2 /\ i < Len(retry.events)
              /\ retry.events[i - 1] = Event("is_retryable", retry.events[i].attempt)
              /\ retry.events[i + 1] = Event("fn", retry.events[i].attempt + 1)

\* every attempt failed retryably, with a sleep between each two of them
C40_Witness ==
    /\ retry.done
    /\ retry.max_attempts = MaxAttempts
    /\ retry.end = "raised"
    /\ FirstDecisive = 0
    /\ Cardinality(Sleeps) = MaxAttempts - 1


\* ---- C38 ----

SeedKeys == {casefold(normalize_term(s)) : s \in Range(cfg.seed_terms)}

\* C38: within one run a term that is not a seed term is passed to primary
\* discovery when it has not been passed before, and query expansion and the
\* stagnation fallback enqueue no term that was popped into a batch earlier in
\* the run.
C38_Step ==
    /\ (CanDiscover /\ pc' = "ingest") =>
           \A b \in Range(PoppedBatch.out) :
               casefold(b) \notin SeedKeys => casefold(b) \notin attempted_keys
    /\ AtEndOfPrimary =>
           \A t \in Range(queue'.queue) \ Range(queue.queue) :
               casefold(t) \notin attempted_keys

C38_NonSeedTermPassedOnce == [][C38_Step]_vars

====
